---- MODULE Spec2Model ----
(***************************************************************************)
(* A state-machine model of the pool tracker of pool-monitor               *)
(* (class PoolMonitor, src/src/poolMonitor.ts lines 427-808), together     *)
(* with the earlier version of its Sync handler (lines 303-352).           *)
(*                                                                         *)
(* A handler that contains an await is modelled by two actions: the part   *)
(* that runs when the event is delivered, up to the await, and the part    *)
(* that runs when the handler is resumed.  Between the two any other       *)
(* handler may run.  handleSync of the current version contains no await   *)
(* and is one action.                                                      *)
(***************************************************************************)
EXTENDS Integers, FiniteSets, Sequences, TLC

VARIABLES
    currentReserves,  \* PoolMonitor.currentReserves
    seenTxHashes,     \* PoolMonitor.seenTxHashes
    tokenCache,       \* PoolMonitor.tokenCache, keyed by lower-cased address
    subscriptions,    \* how many times setupSubscriptions has registered listeners
    initializing,     \* initialize() invocations suspended at await getReserves()
    pending,          \* handler invocations suspended at their await
    delivered,        \* history: every hash handleSync was ever invoked with
    swapped,          \* history: every hash handleSwap was ever invoked with
    lastEvent,        \* history: the handler invocation that took the last step
    lastLog,          \* history: what the last step printed on the console
    networkCalls,     \* history: per address, the symbol()/decimals() call pairs issued
    returnedFor,      \* history: the addresses a getTokenInfo call has returned for
    decoded,          \* what decodeRouterFunction returned last
    other             \* the fields of a second PoolMonitor of the same process

vars == <<currentReserves, seenTxHashes, tokenCache, subscriptions,
          initializing, pending, delivered, swapped, lastEvent, lastLog,
          networkCalls, returnedFor, decoded, other>>

----------------------------------------------------------------------------
(* Program constants *)

SeenLimit == 1000
UsdcDecimals == 6
WethDecimals == 18

(* Bounds of the model *)

MaxHash == 2
MaxPending == 1
MaxSubscriptions == 2

----------------------------------------------------------------------------
(* Inputs *)

TxHashes == 1..MaxHash

\* Mint, Burn and Approval events print their transaction hash and use it for
\* nothing else; they carry a hash that Swap and Sync events carry too.
LiquidityHashes == {1}

\* Reserve pairs a Sync event or getReserves() can carry (uint112 values).
ReservePairs == {<<100, 100>>, <<1000000, 500>>, <<0, 0>>}

\* <<amount0In, amount1In, amount0Out, amount1Out>> of a Swap event: one that
\* takes out more than the pool holds, one that the pool can serve.
SwapAmounts == {<<0, 0, 150, 0>>, <<50, 0, 0, 50>>}

----------------------------------------------------------------------------
(* Addresses and the token cache *)

\* An address is a 20-byte value written as a hex string: the model keeps
\* which token contract the bytes name and how the hex letters are spelled.
Tokens == {"USDC", "WETH", "WBTC"}
Spellings == {"checksum", "lower"}
Addresses == [token : Tokens, spelling : Spellings]

USDC_ADDRESS == [token |-> "USDC", spelling |-> "checksum"]
WETH_ADDRESS == [token |-> "WETH", spelling |-> "checksum"]

\* A token that neither monitor seeds.
WBTC_ADDRESS == [token |-> "WBTC", spelling |-> "checksum"]

\* String.prototype.toLowerCase on an address: the same 20 bytes, all hex
\* letters in lower case.
ToLowerCase(address) == [token |-> address.token, spelling |-> "lower"]

\* The cache the constructor builds.
SeedTokenCache ==
    (ToLowerCase(WETH_ADDRESS) :> [address |-> WETH_ADDRESS, symbol |-> "WETH",
                                   decimals |-> WethDecimals])
    @@ (ToLowerCase(USDC_ADDRESS) :> [address |-> USDC_ADDRESS, symbol |-> "USDC",
                                      decimals |-> UsdcDecimals])

\* A membership test on the address as it was passed in.
CacheHasExactKey(address) == address \in DOMAIN tokenCache

\* The test that opens getTokenInfo.
CacheHas(address) == ToLowerCase(address) \in DOMAIN tokenCache

\* getTokenInfo on a cached address: the cached entry, no network call.
CachedTokenInfo(address) == tokenCache[ToLowerCase(address)]

----------------------------------------------------------------------------
(* Price *)

\* calculatePrice: (reserve0 / 10^d0) / (reserve1 / 10^d1) in floating point.
\* A finite quotient is kept exact as reserve0/reserve1 * 10^(d1 - d0);
\* division by a zero reserve1 gives Infinity, and 0/0 gives NaN.
CalculatePrice(reserve0, reserve1, token0Decimals, token1Decimals) ==
    IF reserve1 = 0
    THEN IF reserve0 = 0 THEN [kind |-> "NaN", num |-> 0, den |-> 0, exp10 |-> 0]
         ELSE [kind |-> "Infinity", num |-> 0, den |-> 0, exp10 |-> 0]
    ELSE [kind |-> "finite", num |-> reserve0, den |-> reserve1,
          exp10 |-> token1Decimals - token0Decimals]

GetCurrentPrice ==
    CalculatePrice(currentReserves.reserve0, currentReserves.reserve1,
                   tokenCache[ToLowerCase(USDC_ADDRESS)].decimals,
                   tokenCache[ToLowerCase(WETH_ADDRESS)].decimals)

NoPrice == [kind |-> "none", num |-> 0, den |-> 0, exp10 |-> 0]

----------------------------------------------------------------------------
(* History records *)

Event(handler, pc, hash, args) ==
    [handler |-> handler, pc |-> pc, hash |-> hash, args |-> args,
     first |-> FALSE, again |-> FALSE]

Log(kind, hash, price) == [kind |-> kind, hash |-> hash, price |-> price]

NoLog == Log("none", 0, NoPrice)

NoCalls == [a \in Addresses |-> 0]

\* No second instance has been constructed.
NoOther == [currentReserves |-> [reserve0 |-> 0, reserve1 |-> 0],
            seenTxHashes |-> {}, tokenCache |-> <<>>, subscriptions |-> 0]

NotDecoded ==
    [threw |-> FALSE, name |-> "none", args |-> <<>>, formatted |-> [n \in {} |-> n]]

----------------------------------------------------------------------------
(* Construction *)

Init ==
    /\ currentReserves = [reserve0 |-> 0, reserve1 |-> 0]
    /\ seenTxHashes = {}
    /\ tokenCache = SeedTokenCache
    /\ subscriptions = 0
    /\ initializing = 1
    /\ pending = {}
    /\ delivered = {}
    /\ swapped = {}
    /\ lastEvent = Event("constructor", "done", 0, <<>>)
    /\ lastLog = NoLog
    /\ networkCalls = NoCalls
    /\ returnedFor = {}
    /\ decoded = NotDecoded
    /\ other = NoOther

----------------------------------------------------------------------------
(* initialize, setupSubscriptions and the provider's error listener *)

\* initialize resumes with the pair getReserves() returned: it stores the pair
\* and calls setupSubscriptions, which registers one more error listener and
\* one more listener per pool event.
InitializeDone(reserve0, reserve1) ==
    /\ initializing >= 1
    /\ subscriptions < MaxSubscriptions
    /\ currentReserves' = [reserve0 |-> reserve0, reserve1 |-> reserve1]
    /\ subscriptions' = subscriptions + 1
    /\ initializing' = initializing - 1
    /\ lastEvent' = Event("initialize", "done", 0, <<reserve0, reserve1>>)
    /\ lastLog' = Log("Setup", 0, NoPrice)
    /\ UNCHANGED <<networkCalls, returnedFor, decoded, other,
                   seenTxHashes, tokenCache, pending, delivered, swapped>>

\* An initialize() whose catch block registers the listeners all the same.
InitializeFailSubscribing ==
    /\ initializing >= 1
    /\ subscriptions < MaxSubscriptions
    /\ initializing' = initializing - 1
    /\ subscriptions' = subscriptions + 1
    /\ lastEvent' = Event("initialize", "failed", 0, <<>>)
    /\ lastLog' = Log("InitError", 0, NoPrice)
    /\ UNCHANGED <<networkCalls, returnedFor, decoded, other,
                   currentReserves, seenTxHashes, tokenCache,
                   pending, delivered, swapped>>

\* getReserves() rejects: the catch block logs the error and nothing else.
InitializeFail ==
    /\ initializing >= 1
    /\ initializing' = initializing - 1
    /\ lastEvent' = Event("initialize", "failed", 0, <<>>)
    /\ lastLog' = Log("InitError", 0, NoPrice)
    /\ UNCHANGED <<networkCalls, returnedFor, decoded, other,
                   currentReserves, seenTxHashes, tokenCache, subscriptions,
                   pending, delivered, swapped>>

\* The provider emits "error": every registered error listener logs it and
\* calls initialize(), which suspends at getReserves().
ProviderError ==
    /\ subscriptions >= 1
    /\ initializing + 2 * subscriptions <= MaxSubscriptions
    /\ initializing' = initializing + subscriptions
    /\ lastEvent' = Event("onError", "done", 0, <<>>)
    /\ lastLog' = Log("WebSocketError", 0, NoPrice)
    /\ UNCHANGED <<networkCalls, returnedFor, decoded, other,
                   currentReserves, seenTxHashes, tokenCache, subscriptions,
                   pending, delivered, swapped>>

----------------------------------------------------------------------------
(* handleSync *)

\* A handleSync without the duplicate check.
SyncNeverSkipped(hash) == FALSE

\* "Skip if we've already seen this transaction"
SyncIsSkipped(hash) == hash \in seenTxHashes

\* A handleSync that clears the full set before it adds the hash.
SeenClearedThenAdded(hash) ==
    IF Cardinality(seenTxHashes) >= SeenLimit /\ hash \notin seenTxHashes
    THEN {hash}
    ELSE seenTxHashes \cup {hash}

\* seenTxHashes.add(hash), and at the end of the handler the clearing of a set
\* that has grown past the limit.
SeenAfterSync(hash) ==
    LET added == seenTxHashes \cup {hash}
    IN  IF Cardinality(added) > SeenLimit THEN {} ELSE added

SyncEvent(hash, reserve0, reserve1) ==
    [Event("handleSync", "done", hash, <<reserve0, reserve1>>) EXCEPT
        !.first = hash \notin delivered,
        !.again = /\ lastEvent.handler \in {"handleSync", "handleSyncV1"}
                  /\ lastEvent.hash = hash
                  /\ lastEvent.args = <<reserve0, reserve1>>]

HandleSync(hash, reserve0, reserve1) ==
    /\ subscriptions >= 1
    /\ delivered' = delivered \cup {hash}
    /\ lastEvent' = SyncEvent(hash, reserve0, reserve1)
    /\ UNCHANGED <<networkCalls, returnedFor, decoded, other,
                   tokenCache, subscriptions, initializing, pending, swapped>>
    /\ IF SyncIsSkipped(hash)
       THEN /\ lastLog' = NoLog
            /\ UNCHANGED <<currentReserves, seenTxHashes>>
       ELSE /\ currentReserves' = [reserve0 |-> reserve0, reserve1 |-> reserve1]
            /\ lastLog' = Log("Sync", hash, GetCurrentPrice')
            /\ seenTxHashes' = SeenAfterSync(hash)

----------------------------------------------------------------------------
(* handleMint, handleBurn, handleSwap, handleApproval *)

\* getTokenInfo up to its first suspension: a cached address is answered at
\* once with the cached entry; for any other address symbol() and decimals()
\* are called on token0 or token1 and the lookup waits for both.
Awaited(address) == [address |-> address, symbol |-> "awaited", decimals |-> 0]

GetTokenInfo(address) ==
    IF CacheHas(address) THEN CachedTokenInfo(address) ELSE Awaited(address)

\* The entry a lookup stores when both calls have answered: the contract asked
\* is token0 for the USDC address and token1 for every other address.
FetchedTokenInfo(address) ==
    IF ToLowerCase(address) = ToLowerCase(USDC_ADDRESS)
    THEN [address |-> address, symbol |-> "USDC", decimals |-> UsdcDecimals]
    ELSE [address |-> address, symbol |-> "WETH", decimals |-> WethDecimals]

\* The handler runs up to  await Promise.all([getTokenInfo(USDC_ADDRESS),
\* getTokenInfo(WETH_ADDRESS)]).  priceAtDelivery is a note for the
\* observer of the invocation; the handler does not read it.
SuspendNoting(handler, hash, args, priceAtDelivery) ==
    LET invocation == [handler |-> handler, hash |-> hash, args |-> args,
                       token0Info |-> GetTokenInfo(USDC_ADDRESS),
                       token1Info |-> GetTokenInfo(WETH_ADDRESS),
                       priceAtDelivery |-> priceAtDelivery]
    IN  /\ subscriptions >= 1
        /\ Cardinality(pending) < MaxPending
        /\ invocation \notin pending
        /\ pending' = pending \cup {invocation}
        /\ networkCalls' =
               [a \in Addresses |->
                   IF a \in {USDC_ADDRESS, WETH_ADDRESS} /\ ~CacheHas(a)
                   THEN networkCalls[a] + 1
                   ELSE networkCalls[a]]
        /\ returnedFor' =
               returnedFor \cup {a \in {USDC_ADDRESS, WETH_ADDRESS} : CacheHas(a)}
        /\ lastEvent' = Event(handler, "await", hash, args)
        /\ lastLog' = NoLog
        /\ UNCHANGED <<currentReserves, seenTxHashes, tokenCache,
                       subscriptions, initializing, delivered, decoded, other>>

Suspend(handler, hash, args) == SuspendNoting(handler, hash, args, NoPrice)

\* The lookups the invocation is waiting for.
AwaitedBy(p) ==
    {i.address : i \in {t \in {p.token0Info, p.token1Info} : t.symbol = "awaited"}}

\* tokenCache.set(lowerAddress, tokenInfo) for every lookup whose calls both
\* answered; a lookup with a failed call stores nothing.
CacheAfterLookups(answered) ==
    [k \in DOMAIN tokenCache \cup {ToLowerCase(a) : a \in answered} |->
        IF \E a \in answered : ToLowerCase(a) = k
        THEN FetchedTokenInfo(CHOOSE a \in answered : ToLowerCase(a) = k)
        ELSE tokenCache[k]]

\* The handler resumes when its lookups have returned, reads
\* getCurrentPrice() and prints its log.  (The second await of handleMint,
\* handleBurn and handleApproval is applied to the price already computed and
\* only delays the printing.)
Resume(p, handler, kind) ==
    /\ p \in pending
    /\ p.handler = handler
    /\ pending' = pending \ {p}
    /\ \E answered \in SUBSET AwaitedBy(p) :
           tokenCache' = CacheAfterLookups(answered)
    /\ returnedFor' = returnedFor \cup AwaitedBy(p)
    /\ UNCHANGED <<currentReserves, seenTxHashes, networkCalls, decoded, other,
                   subscriptions, initializing, delivered, swapped>>
    /\ lastEvent' = Event(handler, "done", p.hash, p.args)
    /\ lastLog' = Log(kind, p.hash, GetCurrentPrice')

HandleMint(hash) == Suspend("handleMint", hash, <<>>) /\ UNCHANGED swapped
ResumeMint(p) == Resume(p, "handleMint", "Mint")

HandleBurn(hash) == Suspend("handleBurn", hash, <<>>) /\ UNCHANGED swapped
ResumeBurn(p) == Resume(p, "handleBurn", "Burn")

HandleApproval(hash) ==
    Suspend("handleApproval", hash, <<>>) /\ UNCHANGED swapped
ResumeApproval(p) == Resume(p, "handleApproval", "Approval")

\* The reserves a Swap's amounts would lead to.
CandidateReserves(reserves, amounts) ==
    [reserve0 |-> reserves.reserve0 + amounts[1] - amounts[3],
     reserve1 |-> reserves.reserve1 + amounts[2] - amounts[4]]

CandidateNegative(reserves, amounts) ==
    \/ CandidateReserves(reserves, amounts).reserve0 < 0
    \/ CandidateReserves(reserves, amounts).reserve1 < 0

\* A handleSwap that records the hash of the transaction.
HandleSwapRecordingHash(hash, amounts) ==
    LET invocation == [handler |-> "handleSwap", hash |-> hash, args |-> amounts,
                       token0Info |-> CachedTokenInfo(USDC_ADDRESS),
                       token1Info |-> CachedTokenInfo(WETH_ADDRESS),
                       priceAtDelivery |-> NoPrice]
    IN  /\ subscriptions >= 1
        /\ Cardinality(pending) < MaxPending
        /\ invocation \notin pending
        /\ pending' = pending \cup {invocation}
        /\ seenTxHashes' = seenTxHashes \cup {hash}
        /\ swapped' = swapped \cup {hash}
        /\ lastEvent' = Event("handleSwap", "await", hash, amounts)
        /\ lastLog' = NoLog
        /\ UNCHANGED <<networkCalls, returnedFor, decoded, other,
                       currentReserves, tokenCache, subscriptions,
                       initializing, delivered>>

\* A handleSwap that applies the amounts to the reserves.
ResumeSwapApplyingAmounts(p) ==
    /\ p \in pending
    /\ p.handler = "handleSwap"
    /\ pending' = pending \ {p}
    /\ currentReserves' = CandidateReserves(currentReserves, p.args)
    /\ lastEvent' = Event("handleSwap", "done", p.hash, p.args)
    /\ lastLog' = Log("Swap", p.hash, GetCurrentPrice)
    /\ UNCHANGED <<networkCalls, returnedFor, decoded, other,
                   seenTxHashes, tokenCache, subscriptions, initializing,
                   delivered, swapped>>

HandleSwap(hash, amounts) ==
    Suspend("handleSwap", hash, amounts) /\ swapped' = swapped \cup {hash}
ResumeSwap(p) == Resume(p, "handleSwap", "Swap")

----------------------------------------------------------------------------
(* The tracker: every handler invoked with any hash, in any order *)

Next ==
    \/ \E rp \in ReservePairs : InitializeDone(rp[1], rp[2])
    \/ InitializeFail
    \/ ProviderError
    \/ \E h \in TxHashes, rp \in ReservePairs : HandleSync(h, rp[1], rp[2])
    \/ \E h \in LiquidityHashes : HandleMint(h)
    \/ \E h \in LiquidityHashes : HandleBurn(h)
    \/ \E h \in LiquidityHashes : HandleApproval(h)
    \/ \E h \in TxHashes, a \in SwapAmounts : HandleSwap(h, a)
    \/ \E p \in pending : ResumeMint(p)
    \/ \E p \in pending : ResumeBurn(p)
    \/ \E p \in pending : ResumeApproval(p)
    \/ \E p \in pending : ResumeSwap(p)

Spec == Init /\ [][Next]_vars

----------------------------------------------------------------------------
(* Mint and Burn among Sync events, each invocation noting the price of the
   reserves at the moment its event is delivered. *)

MintDelivered(hash) ==
    SuspendNoting("handleMint", hash, <<>>, GetCurrentPrice) /\ UNCHANGED swapped

BurnDelivered(hash) ==
    SuspendNoting("handleBurn", hash, <<>>, GetCurrentPrice) /\ UNCHANGED swapped

NextLiquidity ==
    \/ \E rp \in ReservePairs : InitializeDone(rp[1], rp[2])
    \/ \E h \in TxHashes, rp \in ReservePairs : HandleSync(h, rp[1], rp[2])
    \/ \E h \in LiquidityHashes : MintDelivered(h)
    \/ \E h \in LiquidityHashes : BurnDelivered(h)
    \/ \E p \in pending : ResumeMint(p)
    \/ \E p \in pending : ResumeBurn(p)

SpecLiquidity == Init /\ [][NextLiquidity]_vars

----------------------------------------------------------------------------
(* A long run of Sync events: the chain delivers one transaction after the
   other, each with a hash never delivered before, and may deliver the Sync
   it delivered last once more. *)

EvictExtra == 2

EvictReservePairs == {<<100, 100>>, <<1000000, 500>>}

EvictHashes ==
    {Cardinality(delivered) + 1}
    \cup (IF lastEvent.handler \in {"handleSync", "handleSyncV1"}
          THEN {lastEvent.hash} ELSE {})

EvictInitialize ==
    \E rp \in EvictReservePairs : InitializeDone(rp[1], rp[2])

EvictSync ==
    /\ Cardinality(delivered) < SeenLimit + EvictExtra
    /\ \E h \in EvictHashes, rp \in EvictReservePairs : HandleSync(h, rp[1], rp[2])

NextEvict == EvictInitialize \/ EvictSync

SpecEvict == Init /\ [][NextEvict]_vars

----------------------------------------------------------------------------
(* The earlier version of the tracker (lines 30-393): its constructor
   registers the listeners at once, its cache is keyed by the address as
   written, and its handleSync awaits the token lookups between adding the
   hash and clearing the set. *)

MaxInFlight == 2

SeedTokenCacheV1 ==
    (WETH_ADDRESS :> [address |-> WETH_ADDRESS, symbol |-> "WETH",
                      decimals |-> WethDecimals])
    @@ (USDC_ADDRESS :> [address |-> USDC_ADDRESS, symbol |-> "USDC",
                         decimals |-> UsdcDecimals])

InitV1 ==
    /\ currentReserves = [reserve0 |-> 0, reserve1 |-> 0]
    /\ seenTxHashes = {}
    /\ tokenCache = SeedTokenCacheV1
    /\ subscriptions = 1
    /\ initializing = 0
    /\ pending = {}
    /\ delivered = {}
    /\ swapped = {}
    /\ lastEvent = Event("constructor", "done", 0, <<>>)
    /\ lastLog = NoLog
    /\ networkCalls = NoCalls
    /\ returnedFor = {}
    /\ decoded = NotDecoded
    /\ other = NoOther

SyncsInFlight == {p \in pending : p.handler = "handleSyncV1"}

\* A handleSync that awaits the token lookups between the duplicate check
\* and the add: up to its await it has not added the hash.
HandleSyncV1AddingAfterAwait(hash, reserve0, reserve1) ==
    LET invocation == [handler |-> "handleSyncV1", hash |-> hash,
                       args |-> <<reserve0, reserve1>>,
                       token0Info |-> tokenCache[USDC_ADDRESS],
                       token1Info |-> tokenCache[WETH_ADDRESS]]
    IN  /\ subscriptions >= 1
        /\ delivered' = delivered \cup {hash}
        /\ lastEvent' = [SyncEvent(hash, reserve0, reserve1) EXCEPT
                            !.handler = "handleSyncV1", !.pc = "await"]
        /\ lastLog' = NoLog
        /\ UNCHANGED <<networkCalls, returnedFor, decoded, other,
                       currentReserves, tokenCache, subscriptions,
                       initializing, swapped, seenTxHashes>>
        /\ IF hash \in seenTxHashes
           THEN UNCHANGED pending
           ELSE /\ Cardinality(SyncsInFlight) < MaxInFlight
                /\ invocation \notin pending
                /\ pending' = pending \cup {invocation}

\* handleSync up to its await: the duplicate check, the add, and the two
\* token lookups, which hit the seeded cache.
HandleSyncV1(hash, reserve0, reserve1) ==
    LET invocation == [handler |-> "handleSyncV1", hash |-> hash,
                       args |-> <<reserve0, reserve1>>,
                       token0Info |-> tokenCache[USDC_ADDRESS],
                       token1Info |-> tokenCache[WETH_ADDRESS]]
    IN  /\ subscriptions >= 1
        /\ delivered' = delivered \cup {hash}
        /\ lastEvent' = [SyncEvent(hash, reserve0, reserve1) EXCEPT
                            !.handler = "handleSyncV1", !.pc = "await"]
        /\ lastLog' = NoLog
        /\ UNCHANGED <<networkCalls, returnedFor, decoded, other,
                       currentReserves, tokenCache, subscriptions,
                       initializing, swapped>>
        /\ IF hash \in seenTxHashes
           THEN UNCHANGED <<seenTxHashes, pending>>
           ELSE /\ Cardinality(SyncsInFlight) < MaxInFlight
                /\ invocation \notin pending
                /\ seenTxHashes' = seenTxHashes \cup {hash}
                /\ pending' = pending \cup {invocation}

\* A resumed handleSync that never clears the set.
ResumeSyncV1WithoutClear(p) ==
    /\ p \in pending
    /\ p.handler = "handleSyncV1"
    /\ pending' = pending \ {p}
    /\ lastEvent' = Event("handleSyncV1", "done", p.hash, p.args)
    /\ lastLog' = Log("Sync", p.hash,
                      CalculatePrice(p.args[1], p.args[2],
                                     p.token0Info.decimals, p.token1Info.decimals))
    /\ UNCHANGED <<networkCalls, returnedFor, decoded, other,
                   currentReserves, seenTxHashes, tokenCache, subscriptions,
                   initializing, delivered, swapped>>

\* handleSync resumed: the price of the event's reserves, the log, and the
\* clearing of a set that has grown past the limit.
ResumeSyncV1(p) ==
    /\ p \in pending
    /\ p.handler = "handleSyncV1"
    /\ pending' = pending \ {p}
    /\ lastEvent' = Event("handleSyncV1", "done", p.hash, p.args)
    /\ lastLog' = Log("Sync", p.hash,
                      CalculatePrice(p.args[1], p.args[2],
                                     p.token0Info.decimals, p.token1Info.decimals))
    /\ seenTxHashes' = IF Cardinality(seenTxHashes) > SeenLimit
                       THEN {} ELSE seenTxHashes
    /\ UNCHANGED <<networkCalls, returnedFor, decoded, other,
                   currentReserves, tokenCache, subscriptions, initializing,
                   delivered, swapped>>

\* The lookups a suspended handleSync awaits are cache hits: it is resumed
\* before more than MaxInFlight further transactions have been delivered.
V1Sync ==
    /\ Cardinality(delivered) < SeenLimit + EvictExtra
    /\ \A p \in SyncsInFlight : p.hash > Cardinality(delivered) - MaxInFlight
    /\ \E h \in EvictHashes, rp \in EvictReservePairs :
           HandleSyncV1(h, rp[1], rp[2])

V1Resume == \E p \in pending : ResumeSyncV1(p)

NextV1 == V1Sync \/ V1Resume

SpecV1 == InitV1 /\ [][NextV1]_vars

----------------------------------------------------------------------------
(* The token cache of RouterMonitor (src/unnamed/part_000): getTokenInfo and
   getTokenPathInfo.  getTokenPathInfo starts one getTokenInfo per hop; a
   lookup of an address that is not in the cache calls symbol() and
   decimals() and is suspended until both have answered.  The suspended
   lookups of one or several invocations are resumed in any order. *)

FallbackDecimals == 18

MaxLookups == 1
MaxCalls == 2

\* address.slice(0, 10): "0x" and eight hex digits, spelled as the address is.
Slice10(address) ==
    IF address.spelling = "checksum"
    THEN CASE address.token = "USDC" -> "0xA0b86991"
           [] address.token = "WETH" -> "0xC02aaA39"
           [] OTHER -> "0x2260FAC5"
    ELSE CASE address.token = "USDC" -> "0xa0b86991"
           [] address.token = "WETH" -> "0xc02aaa39"
           [] OTHER -> "0x2260fac5"

\* What a token contract answers when its calls succeed.
ChainSymbol(token) == token

ChainDecimals(token) ==
    CASE token = "USDC" -> UsdcDecimals
      [] token = "WETH" -> WethDecimals
      [] OTHER -> 8

\* The outcome of one contract call: an answer, or a failure.
Answer(ok, value) == [ok |-> ok, value |-> value]

SymbolAnswers(address) ==
    {Answer(TRUE, ChainSymbol(address.token)), Answer(FALSE, "")}

DecimalsAnswers(address) ==
    {Answer(TRUE, ChainDecimals(address.token)), Answer(FALSE, 0)}

\* The paths handed to getTokenPathInfo.
TokenPaths ==
    {<<USDC_ADDRESS, WETH_ADDRESS>>,
     <<WBTC_ADDRESS,
       WBTC_ADDRESS>>,
     <<ToLowerCase(WETH_ADDRESS), ToLowerCase(USDC_ADDRESS)>>}

\* "Pre-cache WETH"
RouterSeedTokenCache ==
    WETH_ADDRESS :> [address |-> WETH_ADDRESS, symbol |-> "WETH",
                     decimals |-> WethDecimals]

RouterCacheHas(address) == address \in DOMAIN tokenCache

IsAwaited(info) == "symbol" \in DOMAIN info /\ info.symbol = "awaited"

\* getTokenInfo up to its first suspension.
RouterGetTokenInfo(address) ==
    IF RouterCacheHas(address) THEN tokenCache[address] ELSE Awaited(address)

\* The tokenInfo built from the two answers: .catch(() => null) on symbol(),
\* .catch(() => 18) on decimals(), and  symbol || address.slice(0, 10).
TokenInfoOf(address, symbol, decimals) ==
    [address |-> address,
     symbol |-> IF symbol.ok /\ symbol.value # "" THEN symbol.value
                ELSE Slice10(address),
     decimals |-> IF decimals.ok THEN decimals.value ELSE FallbackDecimals]

\* tokenCache.set(address, tokenInfo) follows whatever the answers were.
IsStored(symbol, decimals) == TRUE

\* info.symbol || info.address.slice(0, 10)
DisplaySymbol(info) ==
    IF "symbol" \in DOMAIN info /\ info.symbol # "" THEN info.symbol
    ELSE Slice10(info.address)

Arrow == " → "

\* Array.prototype.join
RECURSIVE Join(_, _)
Join(strings, separator) ==
    IF Len(strings) <= 1 THEN strings
    ELSE <<Head(strings), separator>> \o Join(Tail(strings), separator)

AwaitedHops(p) == {i \in DOMAIN p.path : IsAwaited(p.infos[i])}

FreeId == CHOOSE n \in 1..MaxLookups : \A p \in pending : p.id # n

\* A Promise.all that fills its result in the order the lookups return.
InfosInArrivalOrder(p, i, tokenInfo) ==
    LET j == CHOOSE k \in AwaitedHops(p) : \A l \in AwaitedHops(p) : k <= l
    IN  IF i = j THEN [p.infos EXCEPT ![i] = tokenInfo]
        ELSE [p.infos EXCEPT ![j] = tokenInfo, ![i] = Awaited(p.path[j])]

\* Promise.all keeps each result at the index of its promise.
InfosAfterReturn(p, i, tokenInfo) == [p.infos EXCEPT ![i] = tokenInfo]

\* getTokenPathInfo(path) up to its await: path.map starts the lookup of
\* every hop.
GetTokenPathInfo(path) ==
    LET invocation ==
            [handler |-> "getTokenPathInfo", id |-> FreeId, path |-> path,
             infos |-> [i \in DOMAIN path |-> RouterGetTokenInfo(path[i])]]
    IN  /\ Cardinality(pending) < MaxLookups
        /\ networkCalls' =
               [a \in Addresses |->
                   networkCalls[a]
                   + Cardinality({i \in DOMAIN path :
                                     path[i] = a /\ ~RouterCacheHas(a)})]
        /\ \A a \in Addresses : networkCalls'[a] <= MaxCalls
        /\ pending' = pending \cup {invocation}
        /\ returnedFor' =
               returnedFor \cup {path[i] : i \in DOMAIN path \ AwaitedHops(invocation)}
        /\ lastEvent' = Event("getTokenPathInfo", "await", 0, <<path>>)
        /\ lastLog' = NoLog
        /\ UNCHANGED <<currentReserves, seenTxHashes, tokenCache, subscriptions,
                       initializing, delivered, swapped, decoded, other>>

\* The lookup of hop i is resumed with the two answers and returns.
ReturnTokenInfo(p, i, symbol, decimals, Info(_, _, _), Stored(_, _)) ==
    LET address == p.path[i]
        tokenInfo == Info(address, symbol, decimals)
    IN  /\ p \in pending
        /\ i \in AwaitedHops(p)
        /\ tokenCache' = IF Stored(symbol, decimals)
                         THEN (address :> tokenInfo) @@ tokenCache
                         ELSE tokenCache
        /\ pending' = (pending \ {p})
                      \cup {[p EXCEPT !.infos = InfosAfterReturn(p, i, tokenInfo)]}
        /\ returnedFor' = returnedFor \cup {address}
        /\ lastEvent' = Event("getTokenInfo", "done", 0,
                              <<address, tokenInfo, symbol, decimals>>)
        /\ lastLog' = NoLog
        /\ UNCHANGED <<currentReserves, seenTxHashes, subscriptions, initializing,
                       delivered, swapped, networkCalls, decoded, other>>

TokenInfoReturns(p, i, symbol, decimals) ==
    ReturnTokenInfo(p, i, symbol, decimals, TokenInfoOf, IsStored)

\* Every lookup has returned: the symbols are joined in path order.
PathInfoReturns(p) ==
    /\ p \in pending
    /\ AwaitedHops(p) = {}
    /\ pending' = pending \ {p}
    /\ lastEvent' = Event("getTokenPathInfo", "done", 0,
                          <<p.path, p.infos,
                            Join([i \in DOMAIN p.infos |-> DisplaySymbol(p.infos[i])],
                                 Arrow)>>)
    /\ lastLog' = NoLog
    /\ UNCHANGED <<currentReserves, seenTxHashes, tokenCache, subscriptions,
                   initializing, delivered, swapped, networkCalls, returnedFor,
                   decoded, other>>

InitRouter ==
    /\ currentReserves = [reserve0 |-> 0, reserve1 |-> 0]
    /\ seenTxHashes = {}
    /\ tokenCache = RouterSeedTokenCache
    /\ subscriptions = 1
    /\ initializing = 0
    /\ pending = {}
    /\ delivered = {}
    /\ swapped = {}
    /\ lastEvent = Event("constructor", "done", 0, <<>>)
    /\ lastLog = NoLog
    /\ networkCalls = NoCalls
    /\ returnedFor = {}
    /\ decoded = NotDecoded
    /\ other = NoOther

NextTokens ==
    \/ \E path \in TokenPaths : GetTokenPathInfo(path)
    \/ \E p \in pending : \E i \in AwaitedHops(p) :
          \E symbol \in SymbolAnswers(p.path[i]),
             decimals \in DecimalsAnswers(p.path[i]) :
              TokenInfoReturns(p, i, symbol, decimals)
    \/ \E p \in pending : PathInfoReturns(p)

SpecTokens == InitRouter /\ [][NextTokens]_vars

----------------------------------------------------------------------------
(* The earlier version of the same cache (src/src/monitor.ts lines 28-98):
   the constructor seeds nothing, and getTokenInfo awaits the two calls
   without a catch of their own, so one failed call rejects the pair. *)

TokenInfoOfV1(address, symbol, decimals) ==
    IF symbol.ok /\ decimals.ok
    THEN [address |-> address, symbol |-> symbol.value, decimals |-> decimals.value]
    ELSE [address |-> address]

\* tokenCache.set is reached when both calls answered; the catch block
\* returns without it.
IsStoredV1(symbol, decimals) == symbol.ok /\ decimals.ok

TokenInfoReturnsV1(p, i, symbol, decimals) ==
    ReturnTokenInfo(p, i, symbol, decimals, TokenInfoOfV1, IsStoredV1)

InitRouterV1 ==
    /\ currentReserves = [reserve0 |-> 0, reserve1 |-> 0]
    /\ seenTxHashes = {}
    /\ tokenCache = [a \in {} |-> a]
    /\ subscriptions = 1
    /\ initializing = 0
    /\ pending = {}
    /\ delivered = {}
    /\ swapped = {}
    /\ lastEvent = Event("constructor", "done", 0, <<>>)
    /\ lastLog = NoLog
    /\ networkCalls = NoCalls
    /\ returnedFor = {}
    /\ decoded = NotDecoded
    /\ other = NoOther

NextTokensV1 ==
    \/ \E path \in TokenPaths : GetTokenPathInfo(path)
    \/ \E p \in pending : \E i \in AwaitedHops(p) :
          \E symbol \in SymbolAnswers(p.path[i]),
             decimals \in DecimalsAnswers(p.path[i]) :
              TokenInfoReturnsV1(p, i, symbol, decimals)
    \/ \E p \in pending : PathInfoReturns(p)

SpecTokensV1 == InitRouterV1 /\ [][NextTokensV1]_vars

----------------------------------------------------------------------------
(* decodeRouterFunction of RouterMonitor (src/unnamed/part_000).

   A transaction record carries  input: the 4-byte selector and the encoded
   arguments.  The model keeps the selector as written, whether the bytes
   after it are a well-formed encoding, and the argument values they encode.
   One decode is one step: its lookups are answered within the step, each
   token by the answers its contract gives during that decode. *)

FormatDefaultDecimals == 18

\* knownSignatures
KnownSignatures ==
    ("0x791ac947" :> "swapExactTokensForTokensSupportingFeeOnTransferTokens")
    @@ ("0x38ed1739" :> "swapExactTokensForTokens")
    @@ ("0x7ff36ab5" :> "swapExactETHForTokens")
    @@ ("0x18cbafe5" :> "swapExactTokensForETH")
    @@ ("0xfb3bdb41" :> "swapETHForExactTokens")
    @@ ("0x4a25d94a" :> "swapTokensForExactETH")
    @@ ("0x8803dbee" :> "swapTokensForExactTokens")
    @@ ("0xf305d719" :> "addLiquidityETH")
    @@ ("0xe8e33700" :> "addLiquidity")
    @@ ("0xbaa2abde" :> "removeLiquidity")
    @@ ("0x02751cec" :> "removeLiquidityETH")

\* functionTypes
FunctionTypes ==
    ("swapExactTokensForTokensSupportingFeeOnTransferTokens"
        :> <<"uint256", "uint256", "address[]", "address", "uint256">>)
    @@ ("swapExactTokensForTokens"
        :> <<"uint256", "uint256", "address[]", "address", "uint256">>)
    @@ ("swapExactETHForTokens"
        :> <<"uint256", "address[]", "address", "uint256">>)
    @@ ("swapExactTokensForETH"
        :> <<"uint256", "uint256", "address[]", "address", "uint256">>)

\* UNISWAP_V2_ROUTER_ABI, the interface of the Uniswap V2 router (imported
\* from ./abis/uniswapV2Router): the function each selector names and the
\* names of its parameters.
AbiFunctions ==
    ("0x38ed1739" :> "swapExactTokensForTokens")
    @@ ("0x8803dbee" :> "swapTokensForExactTokens")
    @@ ("0x7ff36ab5" :> "swapExactETHForTokens")
    @@ ("0x4a25d94a" :> "swapTokensForExactETH")
    @@ ("0x18cbafe5" :> "swapExactTokensForETH")
    @@ ("0xfb3bdb41" :> "swapETHForExactTokens")
    @@ ("0x5c11d795" :> "swapExactTokensForTokensSupportingFeeOnTransferTokens")
    @@ ("0xb6f9de95" :> "swapExactETHForTokensSupportingFeeOnTransferTokens")
    @@ ("0x791ac947" :> "swapExactTokensForETHSupportingFeeOnTransferTokens")
    @@ ("0xf305d719" :> "addLiquidityETH")
    @@ ("0xe8e33700" :> "addLiquidity")
    @@ ("0xbaa2abde" :> "removeLiquidity")
    @@ ("0x02751cec" :> "removeLiquidityETH")

AbiInputs(name) ==
    CASE name \in {"swapExactTokensForTokens", "swapExactTokensForETH",
                   "swapExactTokensForTokensSupportingFeeOnTransferTokens",
                   "swapExactTokensForETHSupportingFeeOnTransferTokens"}
            -> <<"amountIn", "amountOutMin", "path", "to", "deadline">>
      [] name \in {"swapTokensForExactTokens", "swapTokensForExactETH"}
            -> <<"amountOut", "amountInMax", "path", "to", "deadline">>
      [] name \in {"swapExactETHForTokens",
                   "swapExactETHForTokensSupportingFeeOnTransferTokens"}
            -> <<"amountOutMin", "path", "to", "deadline">>
      [] name = "swapETHForExactTokens"
            -> <<"amountOut", "path", "to", "deadline">>
      [] name = "addLiquidity"
            -> <<"tokenA", "tokenB", "amountADesired", "amountBDesired",
                 "amountAMin", "amountBMin", "to", "deadline">>
      [] name = "addLiquidityETH"
            -> <<"token", "amountTokenDesired", "amountTokenMin",
                 "amountETHMin", "to", "deadline">>
      [] name = "removeLiquidity"
            -> <<"tokenA", "tokenB", "liquidity", "amountAMin", "amountBMin",
                 "to", "deadline">>
      [] OTHER
            -> <<"token", "liquidity", "amountTokenMin", "amountETHMin", "to",
                 "deadline">>

NoSchema == <<>>

\* The lookup decodeRouterFunction makes for a selector: the name from
\* knownSignatures and the types from functionTypes, undefined where the
\* table has no entry.
RegistryLookup(selector) ==
    IF selector \in DOMAIN KnownSignatures
    THEN [found |-> TRUE, name |-> KnownSignatures[selector],
          types |-> IF KnownSignatures[selector] \in DOMAIN FunctionTypes
                    THEN FunctionTypes[KnownSignatures[selector]]
                    ELSE NoSchema]
    ELSE [found |-> FALSE, name |-> "UNKNOWN", types |-> NoSchema]

\* The argument values of the transactions delivered to the decoder.
AmountPairs == {<<1500000, 2500000>>, <<0, 2500000>>, <<0, 0>>}

DecodePaths == {<<USDC_ADDRESS, WETH_ADDRESS>>, <<WETH_ADDRESS, USDC_ADDRESS>>, <<>>}

Recipient == "0xRecipient"

ArgValue(name, amount1, amount2, path) ==
    CASE name \in {"amountIn", "amountOut", "amountADesired"} -> amount1
      [] name \in {"amountOutMin", "amountInMax", "amountBDesired"} -> amount2
      [] name = "path" -> path
      [] name = "to" -> Recipient
      [] name \in {"tokenA", "token"} -> USDC_ADDRESS
      [] name = "tokenB" -> WETH_ADDRESS
      [] OTHER -> 1

\* tx.input is undefined.
MissingInput ==
    [input |-> "missing", selector |-> "", wellformed |-> FALSE, values |-> <<>>]

\* tx.input holds fewer than four bytes.
ShortInput ==
    [input |-> "short", selector |-> "0x", wellformed |-> FALSE, values |-> <<>>]

\* A selector followed by bytes that are no encoding of arguments.
MalformedInput(selector) ==
    [input |-> "data", selector |-> selector, wellformed |-> FALSE, values |-> <<>>]

\* A selector of the router followed by the encoding of arguments.
CallInput(selector, amount1, amount2, path) ==
    [input |-> "data", selector |-> selector, wellformed |-> TRUE,
     values |-> [i \in DOMAIN AbiInputs(AbiFunctions[selector]) |->
                    ArgValue(AbiInputs(AbiFunctions[selector])[i],
                             amount1, amount2, path)]]

RouterInputs ==
    {MissingInput, ShortInput}
    \cup {MalformedInput(selector) :
             selector \in DOMAIN AbiFunctions \cup {"0xdeadbeef"}}
    \cup {CallInput(selector, amounts[1], amounts[2], path) :
             selector \in DOMAIN AbiFunctions, amounts \in AmountPairs,
             path \in DecodePaths}

\* The TokenInfo getTokenInfo returns for each address during one decode, in
\* which the symbol() calls and the decimals() calls are answered or fail.
TokenInfos(symbolFails, decimalsFail) ==
    [a \in Addresses |->
        IF RouterCacheHas(a) THEN tokenCache[a]
        ELSE TokenInfoOf(a,
                 IF symbolFails THEN Answer(FALSE, "")
                 ELSE Answer(TRUE, ChainSymbol(a.token)),
                 IF decimalsFail THEN Answer(FALSE, 0)
                 ELSE Answer(TRUE, ChainDecimals(a.token)))]

EmptyFields == [n \in {} |-> n]

Field(name, present, value) == IF present THEN name :> value ELSE EmptyFields

\* formatValue(value, decimals) followed by a blank and the symbol: the digits
\* printed are a function of the value and the decimals.
FormatAmount(value, decimals, symbol) ==
    [amount |-> [value |-> value, decimals |-> decimals], symbol |-> symbol]

PathSymbols(path, infos) ==
    Join([i \in DOMAIN path |-> DisplaySymbol(infos[path[i]])], Arrow)

\* path[0] where the last token is asked for.
FirstTokenAgain(path) == path[1]

FirstToken(path) == path[1]
LastToken(path) == path[Len(path)]

Range(f) == {f[i] : i \in DOMAIN f}

Has(names, name) == \E i \in DOMAIN names : names[i] = name

Named(names, values, name) == values[CHOOSE i \in DOMAIN names : names[i] = name]

Thrown(lookups) ==
    [threw |-> TRUE, name |-> "", args |-> <<>>, formatted |-> EmptyFields,
     lookups |-> lookups]

Returned(name, args, formatted, lookups) ==
    [threw |-> FALSE, name |-> name, args |-> args, formatted |-> formatted,
     lookups |-> lookups]

\* The manual schema applies: the selector is a known signature, the function
\* has an entry in functionTypes and decodeParameters returns a result.
ManualDecodes(tx) ==
    /\ tx.input = "data"
    /\ tx.selector \in DOMAIN KnownSignatures
    /\ KnownSignatures[tx.selector] \in DOMAIN FunctionTypes
    /\ tx.wellformed

\* "Format parameters based on the function type": decoded[2] is taken for
\* the path, decoded[0] for amountIn, decoded[1] for amountOutMin and
\* decoded[3] for the recipient.  getTokenInfo(undefined), for the first or
\* last token of an empty path, rejects.
ManualStage(tx, infos) ==
    LET name == KnownSignatures[tx.selector]
        decodedArgs == tx.values
        path == decodedArgs[3]
    IN  IF FunctionTypes[name][3] # "address[]"
        THEN Returned(name, decodedArgs, EmptyFields, {})
        ELSE IF path = <<>> /\ (decodedArgs[1] # 0 \/ decodedArgs[2] # 0)
        THEN Thrown({})
        ELSE Returned(name, decodedArgs,
                 Field("path", TRUE, PathSymbols(path, infos))
                 @@ Field("amountIn", decodedArgs[1] # 0,
                          FormatAmount(decodedArgs[1], infos[FirstToken(path)].decimals,
                                       infos[FirstToken(path)].symbol))
                 @@ Field("amountOutMin", decodedArgs[2] # 0,
                          FormatAmount(decodedArgs[2], infos[LastToken(path)].decimals,
                                       infos[LastToken(path)].symbol))
                 @@ Field("to", TRUE, decodedArgs[4]),
                 Range(path))

\* formatValue(amount, tokenInfo?.decimals) and tokenInfo?.symbol || "" for
\* the token at the given end of decoded.args.path, or for no token.
AmountOfPathToken(names, values, infos, name, Token(_)) ==
    IF Has(names, "path") /\ Named(names, values, "path") # <<>>
    THEN FormatAmount(Named(names, values, name),
                      infos[Token(Named(names, values, "path"))].decimals,
                      infos[Token(Named(names, values, "path"))].symbol)
    ELSE FormatAmount(Named(names, values, name), FormatDefaultDecimals, "")

\* The amount of a named token formatted as the amounts of a swap are, from
\* the first token of decoded.args.path.
AmountOfPathDerivedToken(names, values, infos, name, token) ==
    AmountOfPathToken(names, values, infos, name, FirstToken)

AmountOfNamedToken(names, values, infos, name, token) ==
    IF Has(names, token)
    THEN FormatAmount(Named(names, values, name),
                      infos[Named(names, values, token)].decimals,
                      infos[Named(names, values, token)].symbol)
    ELSE FormatAmount(Named(names, values, name), FormatDefaultDecimals, "")

Truthy(names, values, name) ==
    Has(names, name) /\ Named(names, values, name) # 0

\* "Try the interface if manual decoding fails": iface.parseTransaction and
\* the formatting of the named arguments.
InterfaceStage(tx, infos) ==
    IF ~(tx.input = "data" /\ tx.selector \in DOMAIN AbiFunctions /\ tx.wellformed)
    THEN Thrown({})
    ELSE
    LET name == AbiFunctions[tx.selector]
        names == AbiInputs(name)
        args == tx.values
    IN  Returned(name, args,
            Field("path", Has(names, "path"),
                  PathSymbols(IF Has(names, "path") THEN Named(names, args, "path")
                              ELSE <<>>, infos))
            @@ Field("amountIn", Truthy(names, args, "amountIn"),
                     AmountOfPathToken(names, args, infos, "amountIn", FirstToken))
            @@ Field("amountOut", Truthy(names, args, "amountOut"),
                     AmountOfPathToken(names, args, infos, "amountOut", LastToken))
            @@ Field("amountOutMin", Truthy(names, args, "amountOutMin"),
                     AmountOfPathToken(names, args, infos, "amountOutMin", LastToken))
            @@ Field("amountInMax", Truthy(names, args, "amountInMax"),
                     AmountOfPathToken(names, args, infos, "amountInMax", FirstToken))
            @@ Field("to", Has(names, "to"),
                     IF Has(names, "to") THEN Named(names, args, "to") ELSE "")
            @@ Field("amountADesired", Truthy(names, args, "amountADesired"),
                     AmountOfNamedToken(names, args, infos, "amountADesired", "tokenA"))
            @@ Field("amountBDesired", Truthy(names, args, "amountBDesired"),
                     AmountOfNamedToken(names, args, infos, "amountBDesired", "tokenB")),
            (IF Has(names, "path") THEN Range(Named(names, args, "path")) ELSE {})
            \cup {Named(names, args, t) :
                    t \in {u \in {"tokenA", "tokenB"} :
                             /\ Has(names, u)
                             /\ Truthy(names, args,
                                       IF u = "tokenA" THEN "amountADesired"
                                       ELSE "amountBDesired")}})

\* A result together with the decoders called on the way to it, in the order
\* of the calls: decodeParameters (the AbiCoder over functionTypes),
\* iface.parseTransaction and iface.decodeFunctionData.
Staged(stages, result) == [stages |-> stages] @@ result

\* functionTypes[knownSignatures[signature]] is defined.
HasManualSchema(tx) ==
    /\ tx.input = "data"
    /\ tx.selector \in DOMAIN KnownSignatures
    /\ KnownSignatures[tx.selector] \in DOMAIN FunctionTypes

\* The try block.
TryBlock(tx, infos) ==
    IF tx.input = "missing" THEN Staged(<<>>, Thrown({}))
    ELSE IF ManualDecodes(tx)
    THEN Staged(<<"decodeParameters">>, ManualStage(tx, infos))
    ELSE Staged(IF HasManualSchema(tx)
                THEN <<"decodeParameters", "parseTransaction">>
                ELSE <<"parseTransaction">>,
                InterfaceStage(tx, infos))

\* iface.decodeFunctionData(knownSignatures[signature], tx.input) returns the
\* arguments when the input is a well-formed call of the function so named.
Redecodes(tx) ==
    /\ tx.wellformed
    /\ AbiFunctions[tx.selector] = KnownSignatures[tx.selector]

\* The catch block: the known signature with a second decode, then the
\* search of the interface.  The search compares the selector with
\* getFunction(name)?.selector for the keys of the fragments array, which are
\* its indices and name no function: it finds nothing.
CatchBlock(tx, infos) ==
    IF tx.input = "missing"
    THEN Staged(<<>>, Returned("UNKNOWN", <<>>, EmptyFields, {}))
    ELSE IF tx.input = "data" /\ tx.selector \in DOMAIN KnownSignatures
    THEN Staged(<<"decodeFunctionData">>,
         LET name == KnownSignatures[tx.selector]
             names == AbiInputs(name)
             decodedParams == tx.values
         IN  IF ~Redecodes(tx)
             THEN Returned(name, <<>>, EmptyFields, {})
             ELSE IF ~Has(names, "path")
             THEN Returned(name, decodedParams, EmptyFields, {})
             ELSE IF /\ Named(names, decodedParams, "path") = <<>>
                     /\ \/ Truthy(names, decodedParams, "amountIn")
                        \/ Truthy(names, decodedParams, "amountOutMin")
             THEN Returned(name, <<>>, EmptyFields, {})
             ELSE Returned(name, decodedParams,
                      Field("path", TRUE,
                            PathSymbols(Named(names, decodedParams, "path"), infos))
                      @@ Field("amountIn", Truthy(names, decodedParams, "amountIn"),
                               AmountOfPathToken(names, decodedParams, infos,
                                                 "amountIn", FirstToken))
                      @@ Field("amountOutMin",
                               Truthy(names, decodedParams, "amountOutMin"),
                               AmountOfPathToken(names, decodedParams, infos,
                                                 "amountOutMin", LastToken))
                      @@ Field("to", Has(names, "to"),
                               IF Has(names, "to")
                               THEN Named(names, decodedParams, "to") ELSE ""),
                      Range(Named(names, decodedParams, "path"))))
    ELSE Staged(<<>>, Returned("UNKNOWN", <<>>, EmptyFields, {}))

\* A decoder whose try block has no catch.
DecodeWithoutCatch(tx, infos) == TryBlock(tx, infos)

DecodeRouterFunction(tx, infos) ==
    LET tried == TryBlock(tx, infos)
    IN  IF tried.threw
        THEN [CatchBlock(tx, infos) EXCEPT !.lookups = @ \cup tried.lookups,
                                           !.stages = tried.stages \o @]
        ELSE tried

\* handleRouterTransaction reaches  await this.decodeRouterFunction(tx).
Decode(tx, symbolFails, decimalsFail) ==
    \E result \in {DecodeRouterFunction(tx, TokenInfos(symbolFails, decimalsFail))} :
    LET infos == TokenInfos(symbolFails, decimalsFail)
        fetched == {a \in result.lookups : ~RouterCacheHas(a)}
    IN  /\ decoded' = [threw |-> result.threw, name |-> result.name,
                       args |-> result.args, formatted |-> result.formatted]
        /\ tokenCache' = [a \in DOMAIN tokenCache \cup fetched |->
                             IF a \in fetched THEN infos[a] ELSE tokenCache[a]]
        /\ networkCalls' = [a \in Addresses |->
                               IF a \in fetched THEN networkCalls[a] + 1
                               ELSE networkCalls[a]]
        /\ returnedFor' = returnedFor \cup result.lookups
        /\ lastEvent' = Event("decodeRouterFunction", "done", 0,
                               <<tx, result.stages>>)
        /\ lastLog' = NoLog
        /\ UNCHANGED <<currentReserves, seenTxHashes, subscriptions, initializing,
                       pending, delivered, swapped, other>>

NextDecode ==
    \E tx \in RouterInputs, symbolFails \in BOOLEAN, decimalsFail \in BOOLEAN :
        Decode(tx, symbolFails, decimalsFail)

SpecDecode == InitRouter /\ [][NextDecode]_vars

----------------------------------------------------------------------------
(* decodeRouterFunction of the earlier RouterMonitor (src/src/monitor.ts,   *)
(* lines 104-160): one decode through the interface of the router contract, *)
(* amounts printed by ethers.formatEther, one catch block.                  *)

EtherDecimals == 18

\* ethers.formatEther(value): the value in units of 10^18, no symbol.
FormatEther(value) == FormatAmount(value, EtherDecimals, "")

TokenInfosV1(symbolFails, decimalsFail) ==
    [a \in Addresses |->
        IF RouterCacheHas(a) THEN tokenCache[a]
        ELSE TokenInfoOfV1(a,
                 IF symbolFails THEN Answer(FALSE, "")
                 ELSE Answer(TRUE, ChainSymbol(a.token)),
                 IF decimalsFail THEN Answer(FALSE, 0)
                 ELSE Answer(TRUE, ChainDecimals(a.token)))]

DecodeRouterFunctionV1(tx, infos) ==
    IF ~(tx.input = "data" /\ tx.selector \in DOMAIN AbiFunctions /\ tx.wellformed)
    THEN Returned("UNKNOWN", <<>>, EmptyFields, {})
    ELSE
    LET name == AbiFunctions[tx.selector]
        names == AbiInputs(name)
        args == tx.values
    IN  Returned(name, args,
            Field("path", Has(names, "path"),
                  PathSymbols(IF Has(names, "path") THEN Named(names, args, "path")
                              ELSE <<>>, infos))
            @@ Field("amountIn", Truthy(names, args, "amountIn"),
                     FormatEther(IF Has(names, "amountIn")
                                 THEN Named(names, args, "amountIn") ELSE 0))
            @@ Field("amountOut", Truthy(names, args, "amountOut"),
                     FormatEther(IF Has(names, "amountOut")
                                 THEN Named(names, args, "amountOut") ELSE 0))
            @@ Field("amountOutMin", Truthy(names, args, "amountOutMin"),
                     FormatEther(IF Has(names, "amountOutMin")
                                 THEN Named(names, args, "amountOutMin") ELSE 0))
            @@ Field("amountInMax", Truthy(names, args, "amountInMax"),
                     FormatEther(IF Has(names, "amountInMax")
                                 THEN Named(names, args, "amountInMax") ELSE 0))
            @@ Field("to", Has(names, "to"),
                     IF Has(names, "to") THEN Named(names, args, "to") ELSE ""),
            IF Has(names, "path") THEN Range(Named(names, args, "path")) ELSE {})

DecodeV1(tx, symbolFails, decimalsFail) ==
    \E result \in {DecodeRouterFunctionV1(tx, TokenInfosV1(symbolFails, decimalsFail))} :
    LET infos == TokenInfosV1(symbolFails, decimalsFail)
        fetched == {a \in result.lookups : ~RouterCacheHas(a)}
        stored == {a \in fetched : "symbol" \in DOMAIN infos[a]}
    IN  /\ decoded' = [threw |-> result.threw, name |-> result.name,
                       args |-> result.args, formatted |-> result.formatted]
        /\ tokenCache' = [a \in DOMAIN tokenCache \cup stored |->
                             IF a \in stored THEN infos[a] ELSE tokenCache[a]]
        /\ networkCalls' = [a \in Addresses |->
                               IF a \in fetched THEN networkCalls[a] + 1
                               ELSE networkCalls[a]]
        /\ \A a \in Addresses : networkCalls'[a] <= MaxCalls
        /\ returnedFor' = returnedFor \cup result.lookups
        /\ lastEvent' = Event("decodeRouterFunction", "done", 0, <<tx>>)
        /\ lastLog' = NoLog
        /\ UNCHANGED <<currentReserves, seenTxHashes, subscriptions, initializing,
                       pending, delivered, swapped, other>>

NextDecodeV1 ==
    \E tx \in RouterInputs, symbolFails \in BOOLEAN, decimalsFail \in BOOLEAN :
        DecodeV1(tx, symbolFails, decimalsFail)

SpecDecodeV1 == InitRouterV1 /\ [][NextDecodeV1]_vars

----------------------------------------------------------------------------
(* The handlers of pending transactions: RouterMonitor.handleRouterTransaction *)
(* (src/unnamed/part_000), TransactionMonitor.handlePendingTransaction of      *)
(* src/unnamed/part_001, and the TransactionMonitor at the end of              *)
(* src/src/poolMonitor.ts, which subscribes to the pool and the router.        *)

FUNCTION_SIGNATURES ==
    ("SWAP" :> "0x022c0d9f")
    @@ ("ADD_LIQUIDITY" :> "0xf305d719")
    @@ ("REMOVE_LIQUIDITY" :> "0xbaa2abde")
    @@ ("MINT" :> "0x6a627842")
    @@ ("BURN" :> "0x3c6bb436")
    @@ ("SYNC" :> "0xfff6cae9")

ROUTER_SIGNATURES ==
    ("SWAP_ETH_FOR_EXACT_TOKENS" :> "0xfb3bdb41")
    @@ ("SWAP_EXACT_ETH_FOR_TOKENS" :> "0x7ff36ab5")
    @@ ("SWAP_EXACT_TOKENS_FOR_ETH" :> "0x18cbafe5")
    @@ ("SWAP_TOKENS_FOR_EXACT_ETH" :> "0x4a25d94a")
    @@ ("SWAP_EXACT_TOKENS_FOR_TOKENS" :> "0x38ed1739")
    @@ ("SWAP_TOKENS_FOR_EXACT_TOKENS" :> "0x8803dbee")

\* The switch over the signatures of a table: the key of the case that
\* matches, the default otherwise.
SwitchOver(table, signature) ==
    IF \E k \in DOMAIN table : table[k] = signature
    THEN CHOOSE k \in DOMAIN table : table[k] = signature
    ELSE "UNKNOWN"

GetTransactionType(signature) == SwitchOver(FUNCTION_SIGNATURES, signature)

GetRouterFunctionName(signature) == SwitchOver(ROUTER_SIGNATURES, signature)

\* The transactions the subscriptions deliver: the input as the decoder sees
\* it, the recipient, whether the input holds the bytes of the pool's
\* address, and whether value and gas price are present.
MonitorSelectors ==
    DOMAIN KnownSignatures
    \cup {FUNCTION_SIGNATURES[k] : k \in DOMAIN FUNCTION_SIGNATURES}
    \cup {"0xdeadbeef"}

MonitorBodies ==
    {MissingInput}
    \cup {MalformedInput(selector) : selector \in MonitorSelectors}
    \cup {CallInput(selector, 1500000, 2500000, <<USDC_ADDRESS, WETH_ADDRESS>>) :
             selector \in {"0x38ed1739", "0x7ff36ab5", "0xf305d719"}}

Transactions ==
    {[input |-> b.input, selector |-> b.selector, wellformed |-> b.wellformed,
      values |-> b.values, to |-> to, mentionsPool |-> mentionsPool,
      value |-> fields[1], gasPrice |-> fields[2]] :
        b \in MonitorBodies, to \in {"pool", "router"}, mentionsPool \in BOOLEAN,
        fields \in {<<"wei", "wei">>, <<"missing", "wei">>, <<"wei", "missing">>}}

Classified(threw, name) ==
    [threw |-> threw, name |-> name, args |-> <<>>, formatted |-> EmptyFields]

Handled(handler, tx, result, kind) ==
    /\ decoded' = result
    /\ lastEvent' = Event(handler, "done", 0, <<tx>>)
    /\ lastLog' = Log(kind, 0, NoPrice)

\* RouterMonitor.handleRouterTransaction: the decode, formatValue(tx.value)
\* (which catches), formatUnits of the gas price, the log; all in one try.
HandleRouterTransaction(tx, callsFail) ==
    \E result \in {DecodeRouterFunction(tx, TokenInfos(callsFail, callsFail))} :
    LET infos == TokenInfos(callsFail, callsFail)
        fetched == {a \in result.lookups : ~RouterCacheHas(a)}
    IN  /\ tx.to = "router"
        /\ Handled("handleRouterTransaction", tx,
                   [threw |-> result.threw, name |-> result.name,
                    args |-> result.args, formatted |-> result.formatted],
                   IF tx.gasPrice = "missing" THEN "error" ELSE "transaction")
        /\ tokenCache' = [a \in DOMAIN tokenCache \cup fetched |->
                             IF a \in fetched THEN infos[a] ELSE tokenCache[a]]
        /\ networkCalls' = [a \in Addresses |->
                               IF a \in fetched THEN networkCalls[a] + 1
                               ELSE networkCalls[a]]
        /\ returnedFor' = returnedFor \cup result.lookups
        /\ UNCHANGED <<currentReserves, seenTxHashes, subscriptions, initializing,
                       pending, delivered, swapped, other>>

\* TransactionMonitor.handlePendingTransaction of src/unnamed/part_001: the
\* name of the router function, the value, the gas price and the log, in a try.
HandlePendingTransaction(tx) ==
    /\ tx.to = "router"
    /\ IF tx.input = "missing" \/ tx.value = "missing" \/ tx.gasPrice = "missing"
       THEN Handled("handlePendingTransaction", tx, Classified(FALSE, "none"), "error")
       ELSE Handled("handlePendingTransaction", tx,
                    Classified(FALSE, GetRouterFunctionName(tx.selector)),
                    "transaction")
    /\ UNCHANGED <<currentReserves, seenTxHashes, tokenCache, subscriptions,
                   initializing, pending, delivered, swapped, networkCalls,
                   returnedFor, other>>

\* TransactionMonitor.handlePendingTransaction of src/src/poolMonitor.ts: no
\* try; transaction.input.includes and input.slice throw on a missing input,
\* ethers.formatEther throws on a missing value.
HandlePendingTransactionOfPool(tx) ==
    /\ IF tx.input = "missing"
       THEN Handled("TransactionMonitor.handlePendingTransaction", tx,
                    Classified(TRUE, "none"), "none")
       ELSE IF ~(tx.to = "pool" \/ (tx.to = "router" /\ tx.mentionsPool))
       THEN Handled("TransactionMonitor.handlePendingTransaction", tx,
                    Classified(FALSE, "none"), "none")
       ELSE IF tx.value = "missing"
       THEN Handled("TransactionMonitor.handlePendingTransaction", tx,
                    Classified(TRUE, GetTransactionType(tx.selector)), "none")
       ELSE Handled("TransactionMonitor.handlePendingTransaction", tx,
                    Classified(FALSE, GetTransactionType(tx.selector)),
                    "transaction")
    /\ UNCHANGED <<currentReserves, seenTxHashes, tokenCache, subscriptions,
                   initializing, pending, delivered, swapped, networkCalls,
                   returnedFor, other>>

NextMonitor ==
    \/ \E tx \in Transactions, callsFail \in BOOLEAN :
          HandleRouterTransaction(tx, callsFail)
    \/ \E tx \in Transactions : HandlePendingTransaction(tx)
    \/ \E tx \in Transactions : HandlePendingTransactionOfPool(tx)

SpecMonitor == InitRouter /\ [][NextMonitor]_vars

----------------------------------------------------------------------------
(* calculatePrice on reserves of the size the pool holds.  A reserve is     *)
(* written coef * 10^exp, so that 10^21 is a value of the model.            *)

Scaled(coef, exp) == [coef |-> coef, exp |-> exp]

PriceReserves0 ==
    {Scaled(c, e) : c \in {0, 1, 1999, 2500, 2504, 2509}, e \in {6, 8}}

PriceReserves1 ==
    {Scaled(c, e) : c \in {0, 1, 3, 7}, e \in {18, 21}}

\* The integer nearest to c0 * 10^shift / c1, the half rounded up.
NearestQuotient(c0, c1, shift) ==
    IF shift >= 0
    THEN (2 * c0 * 10^shift + c1) \div (2 * c1)
    ELSE (2 * c0 + c1 * 10^(-shift)) \div (2 * c1 * 10^(-shift))

\* calculatePrice: Number(reserve0) / 10^d0 divided by Number(reserve1) /
\* 10^d1 in floating point, then toFixed(2), which prints the hundredth
\* nearest to the quotient.  The reserves above are doubles and their
\* quotients lie on no half of a hundredth, so the double's error does not
\* reach the two digits printed.  x / 0 is Infinity and 0 / 0 is NaN.
CalculatePriceToFixed(reserve0, reserve1, token0Decimals, token1Decimals) ==
    IF reserve1.coef = 0
    THEN [kind |-> IF reserve0.coef = 0 THEN "NaN" ELSE "Infinity",
          num |-> 0, den |-> 0, exp10 |-> 0]
    ELSE [kind |-> "finite",
          num |-> NearestQuotient(reserve0.coef, reserve1.coef,
                      (reserve0.exp - token0Decimals)
                      - (reserve1.exp - token1Decimals) + 2),
          den |-> 100, exp10 |-> 0]

InitPrice ==
    /\ currentReserves = [reserve0 |-> 0, reserve1 |-> 0]
    /\ seenTxHashes = {}
    /\ tokenCache = SeedTokenCache
    /\ subscriptions = 0
    /\ initializing = 0
    /\ pending = {}
    /\ delivered = {}
    /\ swapped = {}
    /\ networkCalls = NoCalls
    /\ returnedFor = {}
    /\ decoded = NotDecoded
    /\ other = NoOther
    /\ \E reserve0 \in PriceReserves0, reserve1 \in PriceReserves1 :
          lastEvent = Event("calculatePrice", "call", 0, <<reserve0, reserve1>>)
    /\ lastLog = NoLog

CalculatePriceReturns ==
    /\ lastEvent.handler = "calculatePrice" /\ lastEvent.pc = "call"
    /\ lastEvent' = [lastEvent EXCEPT !.pc = "done"]
    /\ lastLog' = Log("price", 0,
                      CalculatePriceToFixed(lastEvent.args[1], lastEvent.args[2],
                          tokenCache[ToLowerCase(USDC_ADDRESS)].decimals,
                          tokenCache[ToLowerCase(WETH_ADDRESS)].decimals))
    /\ UNCHANGED <<currentReserves, seenTxHashes, tokenCache, subscriptions,
                   initializing, pending, delivered, swapped, networkCalls,
                   returnedFor, decoded, other>>

NextPrice == CalculatePriceReturns

SpecPrice == InitPrice /\ [][NextPrice]_vars

----------------------------------------------------------------------------
(* Two PoolMonitor instances in one process.  The first lives in the        *)
(* variables of the tracker, the second in the record  other.  Every field  *)
(* a handler reads or writes is a field of  this  (currentReserves and      *)
(* seenTxHashes by their initializers, tokenCache by the constructor).      *)

NewPoolMonitor ==
    [currentReserves |-> [reserve0 |-> 0, reserve1 |-> 0],
     seenTxHashes |-> {}, tokenCache |-> SeedTokenCache, subscriptions |-> 0]

\* getCurrentPrice of an instance
PriceOf(instance) ==
    CalculatePrice(instance.currentReserves.reserve0,
                   instance.currentReserves.reserve1,
                   instance.tokenCache[ToLowerCase(USDC_ADDRESS)].decimals,
                   instance.tokenCache[ToLowerCase(WETH_ADDRESS)].decimals)

\* handleSync of an instance: the fields after the handler.
SyncOn(instance, hash, reserve0, reserve1) ==
    IF hash \in instance.seenTxHashes
    THEN instance
    ELSE [instance EXCEPT
             !.currentReserves = [reserve0 |-> reserve0, reserve1 |-> reserve1],
             !.seenTxHashes =
                 IF Cardinality(instance.seenTxHashes \cup {hash}) > SeenLimit
                 THEN {}
                 ELSE instance.seenTxHashes \cup {hash}]

\* initialize of the second instance
OtherInitializeDone(reserve0, reserve1) ==
    /\ other.subscriptions = 0
    /\ other' = [other EXCEPT
                    !.currentReserves = [reserve0 |-> reserve0, reserve1 |-> reserve1],
                    !.subscriptions = 1]
    /\ lastEvent' = Event("other.initialize", "done", 0, <<reserve0, reserve1>>)
    /\ lastLog' = Log("Setup", 0, NoPrice)
    /\ UNCHANGED <<currentReserves, seenTxHashes, tokenCache, subscriptions,
                   initializing, pending, delivered, swapped, networkCalls,
                   returnedFor, decoded>>

\* A handleSync of the second instance whose set of seen hashes is one set
\* of the process, shared with the first instance.
OtherHandleSyncSharedSeen(hash, reserve0, reserve1) ==
    /\ other.subscriptions >= 1
    /\ other' = [SyncOn([other EXCEPT !.seenTxHashes = seenTxHashes],
                        hash, reserve0, reserve1)
                    EXCEPT !.seenTxHashes = other.seenTxHashes]
    /\ seenTxHashes' = SyncOn([other EXCEPT !.seenTxHashes = seenTxHashes],
                              hash, reserve0, reserve1).seenTxHashes
    /\ lastEvent' = Event("other.handleSync", "done", hash, <<reserve0, reserve1>>)
    /\ lastLog' = IF hash \in seenTxHashes THEN NoLog
                  ELSE Log("Sync", hash, PriceOf(other'))
    /\ UNCHANGED <<currentReserves, tokenCache, subscriptions,
                   initializing, pending, delivered, swapped, networkCalls,
                   returnedFor, decoded>>

\* handleSync of the second instance
OtherHandleSync(hash, reserve0, reserve1) ==
    /\ other.subscriptions >= 1
    /\ other' = SyncOn(other, hash, reserve0, reserve1)
    /\ lastEvent' = Event("other.handleSync", "done", hash, <<reserve0, reserve1>>)
    /\ lastLog' = IF hash \in other.seenTxHashes THEN NoLog
                  ELSE Log("Sync", hash, PriceOf(other'))
    /\ UNCHANGED <<currentReserves, seenTxHashes, tokenCache, subscriptions,
                   initializing, pending, delivered, swapped, networkCalls,
                   returnedFor, decoded>>

InitInstances ==
    /\ currentReserves = [reserve0 |-> 0, reserve1 |-> 0]
    /\ seenTxHashes = {}
    /\ tokenCache = SeedTokenCache
    /\ subscriptions = 0
    /\ initializing = 1
    /\ pending = {}
    /\ delivered = {}
    /\ swapped = {}
    /\ lastEvent = Event("constructor", "done", 0, <<>>)
    /\ lastLog = NoLog
    /\ networkCalls = NoCalls
    /\ returnedFor = {}
    /\ decoded = NotDecoded
    /\ other = NewPoolMonitor

NextInstances ==
    \/ \E rp \in ReservePairs : InitializeDone(rp[1], rp[2])
    \/ \E h \in TxHashes, rp \in ReservePairs : HandleSync(h, rp[1], rp[2])
    \/ \E rp \in ReservePairs : OtherInitializeDone(rp[1], rp[2])
    \/ \E h \in TxHashes, rp \in ReservePairs : OtherHandleSync(h, rp[1], rp[2])

SpecInstances == InitInstances /\ [][NextInstances]_vars

----------------------------------------------------------------------------
(* Re-initialization among Sync events.  The chain reports its reserves    *)
(* block by block: the Sync of block k carries ChainReserves(k) and is      *)
(* delivered after the Syncs of the blocks before it.  A getReserves() call *)
(* is answered with the reserves of some block between the one reported     *)
(* when the call was issued and the one reported when the answer arrives.   *)

MaxBlocks == 8

ChainReserves(block) == <<100 * (block + 1), 100>>

\* The block the chain has reported last.
LatestBlock == Cardinality(delivered)

\* The first initialize(), called from the constructor: no listener is
\* registered yet and no Sync has been delivered.
FirstInitializeDone ==
    /\ subscriptions = 0
    /\ InitializeDone(ChainReserves(0)[1], ChainReserves(0)[2])

\* The Sync of the next block is delivered to handleSync.
NextBlockSync ==
    /\ LatestBlock < MaxBlocks
    /\ HandleSync(LatestBlock + 1, ChainReserves(LatestBlock + 1)[1],
                  ChainReserves(LatestBlock + 1)[2])

\* The provider emits "error": the listener calls initialize(), which issues
\* getReserves() and suspends.  One error listener is followed.
ErrorIssuesGetReserves ==
    LET invocation == [handler |-> "initialize", hash |-> LatestBlock,
                       args |-> <<>>,
                       token0Info |-> CachedTokenInfo(USDC_ADDRESS),
                       token1Info |-> CachedTokenInfo(WETH_ADDRESS),
                       priceAtDelivery |-> NoPrice]
    IN  /\ subscriptions >= 1
        /\ subscriptions + Cardinality(pending) < MaxSubscriptions
        /\ invocation \notin pending
        /\ pending' = pending \cup {invocation}
        /\ lastEvent' = Event("onError", "done", LatestBlock, <<>>)
        /\ lastLog' = Log("WebSocketError", 0, NoPrice)
        /\ UNCHANGED <<currentReserves, seenTxHashes, tokenCache, subscriptions,
                       initializing, delivered, swapped, networkCalls,
                       returnedFor, decoded, other>>

\* this.currentReserves = { reserve0, reserve1 }
ReservesAfterInitialize(p, answer) ==
    [reserve0 |-> answer[1], reserve1 |-> answer[2]]

\* initialize() resumes with the answer of getReserves(), stores it and calls
\* setupSubscriptions().
GetReservesAnswers(p, block) ==
    /\ p \in pending
    /\ p.handler = "initialize"
    /\ block \in p.hash..LatestBlock
    /\ pending' = pending \ {p}
    /\ currentReserves' = ReservesAfterInitialize(p, ChainReserves(block))
    /\ subscriptions' = subscriptions + 1
    /\ lastEvent' = Event("initialize", "done", p.hash, ChainReserves(block))
    /\ lastLog' = Log("Setup", 0, NoPrice)
    /\ UNCHANGED <<seenTxHashes, tokenCache, initializing, delivered, swapped,
                   networkCalls, returnedFor, decoded, other>>

\* getReserves() rejects: the catch block logs the error.
GetReservesRejects(p) ==
    /\ p \in pending
    /\ p.handler = "initialize"
    /\ pending' = pending \ {p}
    /\ lastEvent' = Event("initialize", "failed", p.hash, <<>>)
    /\ lastLog' = Log("InitError", 0, NoPrice)
    /\ UNCHANGED <<currentReserves, seenTxHashes, tokenCache, subscriptions,
                   initializing, delivered, swapped, networkCalls,
                   returnedFor, decoded, other>>

NextReinit ==
    \/ FirstInitializeDone
    \/ NextBlockSync
    \/ ErrorIssuesGetReserves
    \/ \E p \in pending, block \in 0..MaxBlocks : GetReservesAnswers(p, block)
    \/ \E p \in pending : GetReservesRejects(p)

SpecReinit == Init /\ [][NextReinit]_vars

----------------------------------------------------------------------------
(* Start-up.  The endpoint becomes reachable: a getReserves() call that is  *)
(* waiting for its answer is answered in the end.  The program sets no      *)
(* timer and schedules no retry, so nothing else is assumed to happen.      *)

NextStartup ==
    \/ \E rp \in ReservePairs : InitializeDone(rp[1], rp[2])
    \/ InitializeFail
    \/ ProviderError
    \/ \E h \in TxHashes, rp \in ReservePairs : HandleSync(h, rp[1], rp[2])

SpecStartup ==
    /\ Init
    /\ [][NextStartup]_vars
    /\ WF_vars(\E rp \in ReservePairs : InitializeDone(rp[1], rp[2]))

----------------------------------------------------------------------------
(* Both versions of handleSync with a Sync delivered a second time while    *)
(* the first delivery is being handled: the current version under the long  *)
(* run of Syncs, the earlier version with the Sync of any suspended         *)
(* invocation delivered again.  The cache the constructor built tells the   *)
(* versions apart; no Sync handler changes it.                              *)

\* The Sync of the next transaction, carrying reserves of its own.
V1SyncFresh ==
    /\ Cardinality(delivered) < SeenLimit + EvictExtra
    /\ \A p \in SyncsInFlight : p.hash > Cardinality(delivered) - MaxInFlight
    /\ HandleSyncV1(Cardinality(delivered) + 1, 100, 100)

\* The Sync of a suspended invocation delivered again, with other reserves.
V1SyncRedelivered ==
    \E p \in SyncsInFlight : HandleSyncV1(p.hash, 1000000, 500)

NextSyncTwice ==
    \/ tokenCache = SeedTokenCache /\ EvictInitialize
    \/ tokenCache = SeedTokenCache /\ EvictSync
    \/ tokenCache = SeedTokenCacheV1 /\ V1SyncFresh
    \/ tokenCache = SeedTokenCacheV1 /\ V1SyncRedelivered
    \/ tokenCache = SeedTokenCacheV1 /\ V1Resume

SpecSyncTwice == (Init \/ InitV1) /\ [][NextSyncTwice]_vars

----------------------------------------------------------------------------
(* Claims *)

ReservesOf(args) == [reserve0 |-> args[1], reserve1 |-> args[2]]

\* C1: after handleSync has processed a Sync carrying (r0, r1), currentReserves
\* equals (r0, r1), also when the transaction hash was already in the
\* seen-hash set.
C1_SyncAlwaysCommits ==
    lastEvent.handler = "handleSync" => currentReserves = ReservesOf(lastEvent.args)

\* C2: a Sync handled after a Swap with the same hash is classified as a
\* confirmation and not logged as an independent reserve update; a Sync whose
\* hash has no previously handled Swap is logged as an independent update.
C2_SyncClassification ==
    lastEvent.handler = "handleSync" =>
        IF lastEvent.hash \in swapped
        THEN lastLog.kind = "Confirmation"
        ELSE lastLog.kind = "Sync"

\* C3: immediately after handleSwap has run for a Swap with hash h, h is a
\* member of seenTxHashes.
C3_SwapRecordsHash ==
    (lastEvent.handler = "handleSwap" /\ lastEvent.pc = "done")
        => lastEvent.hash \in seenTxHashes

\* C4: a Swap whose candidate reserves would be negative is rejected, an
\* inconsistency is reported, and the reserves are left as they were.
C4_NegativeReserveRejected ==
    [][(/\ lastEvent'.handler = "handleSwap"
        /\ lastEvent'.pc = "done"
        /\ CandidateNegative(currentReserves, lastEvent'.args))
       => (/\ lastLog'.kind = "Inconsistency"
           /\ currentReserves' = currentReserves)]_vars

\* C5: in every reachable state reserve0 >= 0 and reserve1 >= 0.
C5_ReservesNonNegative ==
    currentReserves.reserve0 >= 0 /\ currentReserves.reserve1 >= 0

\* C5 witness: a Swap whose amounts exceed the reserves has been handled.
C5_Witness ==
    /\ lastEvent.handler = "handleSwap"
    /\ lastEvent.pc = "done"
    /\ currentReserves.reserve0 > 0
    /\ CandidateNegative(currentReserves, lastEvent.args)

\* C6: handleMint, handleBurn, handleSwap and handleApproval leave
\* currentReserves and seenTxHashes unchanged; the only writers of
\* currentReserves are handleSync and initialize.
C6_OnlySyncAndInitializeWrite ==
    [][/\ lastEvent'.handler \in {"handleMint", "handleBurn", "handleSwap",
                                  "handleApproval"}
          => UNCHANGED <<currentReserves, seenTxHashes>>
       /\ currentReserves' # currentReserves
          => lastEvent'.handler \in {"handleSync", "initialize"}]_vars

\* C6 witness: a Burn has been logged while the tracker holds reserves and
\* seen hashes.
C6_Witness ==
    /\ lastEvent.handler = "handleBurn"
    /\ lastEvent.pc = "done"
    /\ currentReserves.reserve0 > 0
    /\ seenTxHashes # {}

\* C10: for a transaction that emits one Swap and one Sync, the reserves after
\* both have been handled are the Sync's reserves, whether the Swap is handled
\* before the Sync or the Sync before the Swap.
C10_OrderTolerance ==
    [][/\ (/\ lastEvent.handler = "handleSwap"
           /\ lastEvent'.handler = "handleSync"
           /\ lastEvent'.hash = lastEvent.hash
           /\ lastEvent'.first)
          => currentReserves' = ReservesOf(lastEvent'.args)
       /\ (/\ lastEvent.handler = "handleSync"
           /\ lastEvent.first
           /\ lastEvent'.handler = "handleSwap"
           /\ lastEvent'.hash = lastEvent.hash)
          => currentReserves' = ReservesOf(lastEvent.args)
       /\ (/\ lastEvent.handler = "handleSwap"
           /\ lastEvent'.handler = "handleSwap"
           /\ lastEvent'.hash = lastEvent.hash)
          => currentReserves' = currentReserves]_vars

\* C10 witness: the Swap of a transaction has been logged after the Sync of
\* the same transaction was handled, and the Sync's reserves are in place.
C10_Witness ==
    /\ lastEvent.handler = "handleSwap"
    /\ lastEvent.pc = "done"
    /\ lastEvent.hash \in delivered
    /\ lastEvent.hash \in seenTxHashes
    /\ currentReserves = ReservesOf(<<1000000, 500>>)

\* C7 as stated: handling the same Sync twice in a row leaves the reserves as
\* they were after the first handling, and the second handling prints no log.
C7_SyncIdempotent ==
    [][(lastEvent'.handler = "handleSync" /\ lastEvent'.again)
       => (/\ currentReserves' = currentReserves
           /\ lastLog'.kind = "none")]_vars

\* C7 as amended: handling the same Sync twice in a row leaves the reserves as
\* they were after the first handling, and the second handling prints no log
\* unless the first handling cleared the seen-hash set.
C7_SyncIdempotentUnlessCleared ==
    [][(lastEvent'.handler = "handleSync" /\ lastEvent'.again)
       => (/\ currentReserves' = currentReserves
           /\ seenTxHashes # {} => lastLog'.kind = "none")]_vars

\* C7 witness: the same Sync has been handled a second time, without a log.
C7_Witness ==
    /\ lastEvent.handler = "handleSync"
    /\ lastEvent.again
    /\ lastLog.kind = "none"
    /\ currentReserves = ReservesOf(lastEvent.args)

\* C8: starting from the empty set, after Syncs with 1001 distinct hashes the
\* set is empty, and after n <= 1000 distinct hashes it holds n hashes.
C8_AddThenClear ==
    (lastEvent.handler = "handleSync" /\ lastEvent.first) =>
        /\ Cardinality(delivered) <= SeenLimit
           => Cardinality(seenTxHashes) = Cardinality(delivered)
        /\ Cardinality(delivered) = SeenLimit + 1 => seenTxHashes = {}

\* C8 witness: the 1001st distinct hash has just been handled.
C8_Witness ==
    /\ lastEvent.handler = "handleSync"
    /\ lastEvent.first
    /\ Cardinality(delivered) = SeenLimit + 1
    /\ seenTxHashes = {}

\* C9 as stated: the seen-hash set never holds more than 1001 hashes, and at
\* most 1000 whenever no handleSync invocation is in progress.
C9_SeenAtMostLimitPlusOne ==
    /\ Cardinality(seenTxHashes) <= SeenLimit + 1
    /\ SyncsInFlight = {} => Cardinality(seenTxHashes) <= SeenLimit

\* C9 as amended: the seen-hash set holds at most 1000 hashes plus one for
\* every handleSync invocation suspended at its await, hence at most 1000
\* whenever no handleSync invocation is in progress.
C9_SeenAtMostLimitPlusInFlight ==
    Cardinality(seenTxHashes) <= SeenLimit + Cardinality(SyncsInFlight)

\* C9 witness: two invocations are suspended and the set holds 1002 hashes.
C9_Witness ==
    /\ Cardinality(SyncsInFlight) = 2
    /\ Cardinality(seenTxHashes) = SeenLimit + 2

\* C14: a lookup of an address that is in the cache issues no network call
\* and leaves the cache as it was; the lookups of USDC_ADDRESS and
\* WETH_ADDRESS that the pool handlers make never issue a network call.
C14_CacheHitHasNoEffects ==
    [][/\ (lastEvent'.pc = "await" /\ CacheHas(USDC_ADDRESS) /\ CacheHas(WETH_ADDRESS))
          => /\ UNCHANGED <<tokenCache, networkCalls>>
             /\ \A p \in pending' \ pending :
                    /\ p.token0Info = CachedTokenInfo(USDC_ADDRESS)
                    /\ p.token1Info = CachedTokenInfo(WETH_ADDRESS)
       /\ networkCalls' = NoCalls]_vars

\* C14 witness: a handler has looked both tokens up and waits at its await,
\* no call was issued and the cache is the seeded one.
C14_Witness ==
    /\ lastEvent.pc = "await"
    /\ \E p \in pending : p.token0Info.symbol = "USDC" /\ p.token1Info.symbol = "WETH"
    /\ networkCalls = NoCalls
    /\ tokenCache = SeedTokenCache

\* C11: once a getTokenInfo call has returned for an address, no later
\* getTokenInfo call for that address issues symbol()/decimals() calls,
\* whether the lookup that returned had succeeded or not.
C11_LookupNeverRetried ==
    [][\A a \in Addresses :
          networkCalls'[a] > networkCalls[a] => a \notin returnedFor]_vars

\* C12: every TokenInfo that getTokenInfo returns has a symbol and decimals,
\* and when one of the two calls failed the symbol is the first ten
\* characters of the address and the decimals are 18.
C12_FallbackTokenInfo ==
    (lastEvent.handler = "getTokenInfo" /\ lastEvent.pc = "done") =>
        LET address == lastEvent.args[1]
            tokenInfo == lastEvent.args[2]
            symbol == lastEvent.args[3]
            decimals == lastEvent.args[4]
        IN  /\ {"symbol", "decimals"} \subseteq DOMAIN tokenInfo
            /\ (~symbol.ok \/ ~decimals.ok)
                   => /\ tokenInfo.symbol = Slice10(address)
                      /\ tokenInfo.decimals = FallbackDecimals

\* C13: an entry of the token cache is never replaced by an entry with another
\* symbol or other decimals, also when several lookups of one address are
\* suspended at the same time and return with different answers.
C13_CachedTokenInfoImmutable ==
    [][\A a \in DOMAIN tokenCache :
          /\ a \in DOMAIN tokenCache'
          /\ tokenCache'[a].symbol = tokenCache[a].symbol
          /\ tokenCache'[a].decimals = tokenCache[a].decimals]_vars

\* C15: the two spellings of one address share one cache entry, and a lookup
\* of the seeded token is a hit under either spelling.
C15_CaseInsensitiveLookup ==
    /\ \A a, b \in DOMAIN tokenCache : a.token = b.token => a = b
    /\ \A a \in Addresses : a.token = WETH_ADDRESS.token => networkCalls[a] = 0

\* C20: getTokenPathInfo(<<t1, ..., tn>>) returns n symbols, the i-th being
\* the symbol of ti, joined by the arrow, in whatever order the lookups of
\* the hops returned; for <<USDC_ADDRESS, WETH_ADDRESS>> with the symbols USDC
\* and WETH looked up it returns "USDC", arrow, "WETH".
C20_PathOrderAndLength ==
    (lastEvent.handler = "getTokenPathInfo" /\ lastEvent.pc = "done") =>
        LET path == lastEvent.args[1]
            infos == lastEvent.args[2]
            rendered == lastEvent.args[3]
        IN  /\ Len(rendered) = 2 * Len(path) - 1
            /\ \A i \in DOMAIN path :
                   /\ rendered[2 * i - 1]
                          \in {ChainSymbol(path[i].token), Slice10(path[i])}
                   /\ i < Len(path) => rendered[2 * i] = " → "
            /\ (/\ path = <<USDC_ADDRESS, WETH_ADDRESS>>
                /\ infos[1].symbol = "USDC"
                /\ infos[2].symbol = "WETH")
                   => rendered = <<"USDC", " → ", "WETH">>

\* C20 witness: the path USDC, WETH has been rendered after the lookup of USDC
\* was answered by the token contract.
C20_Witness ==
    /\ lastEvent.handler = "getTokenPathInfo"
    /\ lastEvent.pc = "done"
    /\ lastEvent.args[1] = <<USDC_ADDRESS, WETH_ADDRESS>>
    /\ lastEvent.args[3] = <<"USDC", " → ", "WETH">>
    /\ networkCalls[USDC_ADDRESS] > 0

\* C16: decodeRouterFunction is total: whatever the transaction's input is
\* (missing, shorter than a selector, an unknown selector, malformed
\* arguments, an empty path), the call returns a result with a name, args and
\* formatted, and no exception leaves it.
C16_DecodeRouterFunctionTotal ==
    /\ ~decoded.threw
    /\ decoded.name # ""
    /\ DOMAIN decoded = {"threw", "name", "args", "formatted"}

\* A decode whose try block threw while formatting (a well-formed swap with
\* an empty path and an amount) has returned.
C16_Witness ==
    /\ lastEvent.handler = "decodeRouterFunction"
    /\ LET tx == lastEvent.args[1]
       IN  /\ TryBlock(tx, TokenInfos(FALSE, FALSE)).threw
           /\ tx.input = "data" /\ tx.wellformed
           /\ tx.selector = "0x38ed1739"
    /\ decoded.name = "swapExactTokensForTokens"

\* The input is no well-formed call of a function of the router: neither the
\* manual schema nor the interface can decode it.
NoDecodeSucceeds(tx) ==
    \/ tx.input # "data"
    \/ ~tx.wellformed
    \/ tx.selector \notin DOMAIN AbiFunctions

\* C17: when the manual-schema decode and the interface decode both fail for
\* an input (a recognized selector with malformed arguments included), the
\* operation returned has the name "UNKNOWN", no args and no formatted fields.
C17_UndecodableIsUnknown ==
    lastEvent.handler = "decodeRouterFunction"
        => (NoDecodeSucceeds(lastEvent.args[1])
                => /\ decoded.name = "UNKNOWN"
                   /\ decoded.args = <<>>
                   /\ decoded.formatted = EmptyFields)

\* The path argument of a well-formed call, empty where the call has none.
PathOfInput(tx) ==
    IF /\ tx.input = "data" /\ tx.wellformed
       /\ tx.selector \in DOMAIN AbiFunctions
       /\ Has(AbiInputs(AbiFunctions[tx.selector]), "path")
    THEN Named(AbiInputs(AbiFunctions[tx.selector]), tx.values, "path")
    ELSE <<>>

\* The formatted amount carries the decimals and the symbol known for the token.
FormattedWith(field, token) ==
    token \in DOMAIN tokenCache
        => /\ field.amount.decimals = tokenCache[token].decimals
           /\ field.symbol = tokenCache[token].symbol

\* C18: in every decoded swap that has a path, amountIn and amountInMax are
\* formatted with the decimals and symbol of the first token of the path, and
\* amountOut and amountOutMin with those of the last token.
C18_DirectionalDecimals ==
    lastEvent.handler = "decodeRouterFunction"
        => LET path == PathOfInput(lastEvent.args[1])
               formatted == decoded.formatted
           IN  path # <<>>
                   => /\ \A n \in DOMAIN formatted \cap {"amountIn", "amountInMax"} :
                            FormattedWith(formatted[n], path[1])
                      /\ \A n \in DOMAIN formatted \cap {"amountOut", "amountOutMin"} :
                            FormattedWith(formatted[n], path[Len(path)])

\* C19: for every registered operation whose schema holds a path, at whatever
\* position (swapExactETHForTokens has it second), a successful decode yields
\* a formatted path that renders every hop.
C19_PathFieldFormatted ==
    lastEvent.handler = "decodeRouterFunction"
        => LET tx == lastEvent.args[1]
           IN  (/\ tx.input = "data" /\ tx.wellformed
                /\ tx.selector \in DOMAIN KnownSignatures
                /\ Has(AbiInputs(AbiFunctions[tx.selector]), "path")
                /\ decoded.args # <<>>)
                   => /\ "path" \in DOMAIN decoded.formatted
                      /\ Len(decoded.formatted.path)
                             = Len(Join(PathOfInput(tx), Arrow))

\* The value of a named argument of a well-formed call of the router.
ArgumentOf(tx, name) ==
    Named(AbiInputs(AbiFunctions[tx.selector]), tx.values, name)

C22_RegistryLookup ==
    (lastEvent.handler = "decodeRouterFunction" /\ lastEvent.args[1].input = "data")
        => LET selector == lastEvent.args[1].selector
               entry == RegistryLookup(selector)
           IN  IF selector \in DOMAIN KnownSignatures
               THEN /\ entry.found
                    /\ entry.name = KnownSignatures[selector]
                    /\ entry.types # NoSchema
               ELSE ~entry.found /\ entry.name = "UNKNOWN"

\* C23: a selector resolves to at most one operation name within a scope; a
\* transaction sent to the router with the selector 0xf305d719 is named
\* addLiquidityETH, never addLiquidity, by whichever classifier handles it.
C23_RouterScopeOfF305d719 ==
    LET tx == lastEvent.args[1]
    IN  (/\ lastEvent.handler \in {"handleRouterTransaction",
                                   "handlePendingTransaction",
                                   "TransactionMonitor.handlePendingTransaction"}
         /\ tx.to = "router" /\ tx.input = "data" /\ tx.selector = "0xf305d719"
         /\ decoded.name # "none")
            => decoded.name \in {"addLiquidityETH", "ADD_LIQUIDITY_ETH"}

\* C26: no record is fatal: whatever the delivered transaction lacks (input,
\* value, gas price), the invocation of the handler completes without an
\* exception leaving the handler.
C26_NoExceptionLeavesHandler ==
    lastEvent.handler \in {"handleRouterTransaction", "handlePendingTransaction",
                           "TransactionMonitor.handlePendingTransaction"}
        => ~decoded.threw

\* The hundredths of (reserve_quote * SCALE * 10^baseDecimals) /
\* (reserve_base * 10^quoteDecimals) / SCALE in integer arithmetic, where each
\* division drops the remainder.  10^SCALE_EXP is a multiple of 100, so the
\* digits kept are those of the quotient of the reserves cut after two places.
ScaledIntegerHundredths(reserve_quote, reserve_base, quoteDecimals, baseDecimals) ==
    LET SCALE_EXP == 12
        shift == (reserve_quote.exp + SCALE_EXP + baseDecimals)
                 - (reserve_base.exp + quoteDecimals) - (SCALE_EXP - 2)
    IN  IF shift >= 0
        THEN (reserve_quote.coef * 10^shift) \div reserve_base.coef
        ELSE reserve_quote.coef \div (reserve_base.coef * 10^(-shift))

\* C24: for all reserves with reserve_base > 0 the price string is the value
\* of the scaled-integer formula with SCALE = 10^12, computed without
\* floating point and written with two decimals; reserve0 = 2,500,000,000
\* and reserve1 = 10^21 give 2.50.
C24_PriceIsScaledIntegerFormula ==
    (/\ lastEvent.handler = "calculatePrice" /\ lastEvent.pc = "done"
     /\ lastEvent.args[2].coef > 0)
        => /\ lastLog.price.kind = "finite"
           /\ lastLog.price.den = 100
           /\ lastLog.price.num =
                  ScaledIntegerHundredths(lastEvent.args[1], lastEvent.args[2],
                                          UsdcDecimals, WethDecimals)
           /\ (lastEvent.args = <<Scaled(2500, 6), Scaled(1, 21)>>
                  => lastLog.price.num = 250)

\* C25: a price query never yields a non-finite result: in every reachable
\* state of the reserves, reserve1 = 0 and both reserves 0 included, the
\* price logged is a finite decimal or a placeholder, never NaN or Infinity.
C25_PriceNeverNonFinite ==
    lastLog.price.kind \notin {"NaN", "Infinity"}

\* C27: the price printed in a Mint or Burn log is the price of the reserves
\* as they were when the event was delivered to its handler; a Sync handled
\* while the handler is suspended does not change the price the log reports.
C27_LiquidityLogPriceAtDelivery ==
    [][\A p \in pending :
          (p \notin pending' /\ p.handler \in {"handleMint", "handleBurn"})
              => lastLog'.price = p.priceAtDelivery]_vars

\* C28: two monitor instances of one process own separate reserves, seen
\* hashes and token cache: an event delivered to one instance leaves the
\* other instance's reserves, seen hashes, cache and price unchanged.
C28_InstancesIndependent ==
    [][/\ lastEvent'.handler \in {"initialize", "handleSync"}
            => other' = other
       /\ lastEvent'.handler \in {"other.initialize", "other.handleSync"}
            => /\ UNCHANGED <<currentReserves, seenTxHashes, tokenCache>>
               /\ GetCurrentPrice' = GetCurrentPrice]_vars

\* Both instances have handled Sync events: a hash the first has seen is
\* handled by the second, which the first's set did not make it skip, and
\* the two hold different reserves.
C28_Witness ==
    /\ lastEvent.handler = "other.handleSync"
    /\ lastEvent.hash \in seenTxHashes
    /\ lastLog.kind = "Sync"
    /\ other.currentReserves # currentReserves
    /\ currentReserves.reserve1 > 0

\* C29: for every operation registered with a schema and every tuple of
\* arguments (integers, addresses, address arrays, the empty array included),
\* decoding the selector followed by the encoding of the arguments gives back
\* the operation name and exactly the argument values that were encoded.
C29_EncodeDecodeRoundTrip ==
    lastEvent.handler = "decodeRouterFunction"
        => LET tx == lastEvent.args[1]
           IN  (/\ tx.input = "data" /\ tx.wellformed
                /\ RegistryLookup(tx.selector).types # NoSchema)
                   => /\ ~decoded.threw
                      /\ decoded.name = RegistryLookup(tx.selector).name
                      /\ decoded.args = tx.values

\* C30: for an input that holds a selector, the interface is asked to parse
\* the transaction exactly when the selector has no manual schema or the
\* decode under the manual schema failed; when the manual decode succeeds its
\* values are returned and no decoder of the interface is consulted; and for
\* a selector with a manual schema the manual decode is the first decoder
\* called.
C30_DecodeFallbackOrdering ==
    (lastEvent.handler = "decodeRouterFunction" /\ lastEvent.args[1].input # "missing")
        => LET tx == lastEvent.args[1]
               stages == lastEvent.args[2]
               schema == RegistryLookup(tx.selector).types # NoSchema
               interface == {"parseTransaction", "decodeFunctionData"}
           IN  /\ (\E i \in DOMAIN stages : stages[i] = "parseTransaction")
                      <=> (~schema \/ ~tx.wellformed)
               /\ (schema /\ tx.wellformed)
                      => /\ decoded.args = tx.values
                         /\ \A i \in DOMAIN stages : stages[i] \notin interface
               /\ schema => (stages # <<>> /\ stages[1] = "decodeParameters")

\* C31: whatever number of provider errors has occurred, there is one
\* listener per pool event and one error listener: setupSubscriptions has
\* registered its listeners at most once, so an event is handled by one
\* invocation of its handler.
C31_OneListenerPerEvent ==
    subscriptions <= 1

\* C32: the reserves never regress to an older snapshot: once the listeners
\* are registered the reserves held are those the chain reported last, also
\* when a re-run initialize() receives the answer of a getReserves() call it
\* issued before a Sync that has been handled in the meantime.
C32_ReservesNeverRegress ==
    subscriptions >= 1
        => currentReserves = [reserve0 |-> ChainReserves(LatestBlock)[1],
                              reserve1 |-> ChainReserves(LatestBlock)[2]]

\* C33: listeners are registered only by an initialize() that has stored the
\* reserves getReserves() returned, in the same step and after the store, and
\* a handler of a pool event runs only when listeners are registered: no
\* handler computes a price from the reserves (0, 0) of the constructor.
C33_HandlersAfterReservesStored ==
    [][/\ subscriptions' > subscriptions
            => /\ lastEvent' = Event("initialize", "done", 0, lastEvent'.args)
               /\ currentReserves' = [reserve0 |-> lastEvent'.args[1],
                                      reserve1 |-> lastEvent'.args[2]]
       /\ lastEvent'.handler \in {"handleSync", "handleMint", "handleBurn",
                                  "handleSwap", "handleApproval"}
            => subscriptions >= 1]_vars

\* A Mint has been handled and its log carries the price of reserves that
\* the first initialize() stored: no Sync has been delivered yet.
C33_Witness ==
    /\ lastEvent.handler = "handleMint"
    /\ lastEvent.pc = "done"
    /\ lastLog.price.kind = "finite"
    /\ delivered = {}
    /\ subscriptions = 1

\* C34: the monitor eventually becomes subscribed: when the first
\* getReserves() of initialize() has failed and the endpoint answers calls
\* from then on, the listeners of the pool events are registered in the end.
C34_EventuallySubscribed ==
    (lastEvent.handler = "initialize" /\ lastEvent.pc = "failed"
     /\ subscriptions = 0)
        ~> (subscriptions >= 1)

\* The step delivers a Sync whose hash is being handled: in the earlier
\* version an invocation with the hash is suspended at its await, in the
\* current version the Sync handled last is delivered again.
SecondOfTwoConcurrentSyncs ==
    \/ /\ lastEvent'.handler = "handleSyncV1"
       /\ lastEvent'.pc = "await"
       /\ \E p \in SyncsInFlight : p.hash = lastEvent'.hash
    \/ /\ lastEvent'.handler = "handleSync"
       /\ lastEvent'.again

\* The delivered Sync is skipped: no commit, no log, no new invocation.
SyncDoesNotProceed ==
    /\ lastLog'.kind = "none"
    /\ UNCHANGED <<currentReserves, seenTxHashes, pending>>

\* C35 as stated: of two Sync notifications with the same hash delivered
\* concurrently at most one proceeds to commit and log, in both versions of
\* handleSync: the second is skipped.
C35_AtMostOneSyncProceeds ==
    [][SecondOfTwoConcurrentSyncs => SyncDoesNotProceed]_vars

\* C35 as amended: the check and the insertion of the hash are one step, so
\* the second of two concurrent Sync notifications with the same hash is
\* skipped as long as the set has not been cleared since the first inserted
\* the hash: always while at most 1000 distinct hashes have been delivered,
\* and later whenever the hash is still in the set.
C35_AtMostOneSyncProceedsUnlessCleared ==
    [][(/\ SecondOfTwoConcurrentSyncs
        /\ \/ Cardinality(delivered) <= SeenLimit
           \/ lastEvent'.hash \in seenTxHashes)
       => SyncDoesNotProceed]_vars

\* C35 witness: in the earlier version a Sync was delivered again, with other
\* reserves, while the invocation that inserted its hash is suspended, and
\* was skipped.
C35_Witness ==
    /\ lastEvent.handler = "handleSyncV1"
    /\ lastEvent.pc = "await"
    /\ ~lastEvent.first
    /\ lastEvent.hash \in seenTxHashes
    /\ \A p \in SyncsInFlight : p.hash = lastEvent.hash => p.args # lastEvent.args
    /\ \E p \in SyncsInFlight : p.hash = lastEvent.hash
    /\ lastLog.kind = "none"

\* C36: for each token address the pair of symbol() and decimals() calls is
\* issued at most once in the life of the process, also when several lookups
\* of the same uncached address are in flight at the same time.
C36_CallsIssuedAtMostOnce ==
    \A a \in Addresses : networkCalls[a] <= 1

====
